---- MODULE Spec2Model ----
(***************************************************************************)
(* Model of the confidential-output wallet RPC layer (rpchdwallet) and the *)
(* wallet record types (hdwallettypes): the frozen-output tracer, the send *)
(* path, database transactions, commitment checks and output listing.      *)
(***************************************************************************)
EXTENDS Integers, Sequences, FiniteSets, TLC

\* ------------------------------------------------------------------------
\* Bounds of the model
\* ------------------------------------------------------------------------
NumTx == 3
NumWallets == 2
NumOut == 2
MaxVin == 2
MaxEdges == 2
MaxStack == 7
NumSenders == 2
NumListTx == 2
MaxDepth == 2

TxIds == 1..NumTx
NullTx == 0
OutIdx == 0..(NumOut - 1)
Wallets == 1..NumWallets
Outpoints == [hash : TxIds, n : OutIdx]
Senders == 1..NumSenders

\* ------------------------------------------------------------------------
\* State
\* ------------------------------------------------------------------------
VARIABLES
    mapRecords,     \* wallet -> txid -> CTransactionRecord (present flag = in the map)
    storedTx,       \* wallet -> txid -> CStoredTransaction (present flag = readable)
    spentOuts,      \* wallet -> set of outpoints IsSpent() reports as spent
    walletLocked,   \* wallet -> IsLocked() || fUnlockForStakingOnly
    chain,          \* chain view: frozen blind txids, anon links, black/white lists
    traceArgs,      \* arguments of the running trace
    tracePhase,     \* position of traceFrozenOutputs
    scanW,          \* wallet index of the scan / fill loops
    top_level,      \* std::set<COutPoint> top_level
    set_forced,     \* std::set<COutPoint> set_forced
    walkTodo,       \* top-level outpoints still to walk, in set order
    walkCur,        \* top-level outpoint whose traceFrozenPrevout call is running
    traced_txns,    \* std::map<uint256, TracedTx>
    warnings,       \* UniValue warnings (array)
    traceStack,     \* call stack of traceFrozenPrevout, top frame last
    expandCount,    \* history: times the input loop of a txid was entered
    skipCount,      \* history: times a call for a txid returned at the already-have check
    traceLocks      \* history: wallets whose cs_wallet the tracing thread holds in the last step

traceVars == <<mapRecords, storedTx, spentOuts, walletLocked, chain, traceArgs,
               tracePhase, scanW, top_level, set_forced, walkTodo, walkCur,
               traced_txns, warnings, traceStack, expandCount, skipCount, traceLocks>>

\* SendToInner
VARIABLES
    sendPc,         \* request thread -> position in SendToInner
    sendArgs,       \* request thread -> fCheckFeeOnly, fSubmitTx, fTestMempoolAccept
    sendSel,        \* request thread -> outpoints placed in wtx.vin by AddXInputs
    sendResult,     \* request thread -> outcome handed to the caller
    sendHist        \* history: request thread -> result of TestMempoolAccept,
                    \*          CommitTransaction called

sendVars == <<sendPc, sendArgs, sendSel, sendResult, sendHist>>

\* wallet database and the handlers that open a database transaction
VARIABLES
    dbTx,           \* txids stored under a "tx" key
    dbRtx,          \* txids stored under an "rtx" key
    dbTxn,          \* the open database transaction and its pending deletes
    mapWallet,      \* txid -> CWalletTx loaded in memory (present flag = in the map)
    clearPc,        \* position of clearwallettransactions
    clearArgs,      \* fRemoveAll
    clearCursor,    \* keys the cursor has still to visit
    clearCount,     \* nRemoved, nRecordsRemoved
    clearSnap,      \* history: the ledger when the running call started
    txnAbortCalls,  \* history: number of TxnAbort calls
    derivePc,       \* position of deriverangekeys (stealth branch)
    deriveArgs,     \* stealth_v2, fSave, num_keys, and whether the chain exists
    deriveK,        \* loop counter k
    stealthAddrs    \* stealth key numbers saved: in memory (mem) and persisted (db)

dbVars == <<dbTx, dbRtx, dbTxn, mapWallet, clearPc, clearArgs, clearCursor,
            clearCount, clearSnap, txnAbortCalls, derivePc, deriveArgs, deriveK,
            stealthAddrs>>

\* verifycommitment
VARIABLES
    verifyArgs,     \* commitment, blind and amount of the request, as byte strings
    verifyResult,   \* reply to the request, "none" before the call
    verifyPrev      \* history: arguments of the accepted request the current one was changed from

verifyVars == <<verifyArgs, verifyResult, verifyPrev>>

\* fundrawtransactionfrom and transactionblinds, each on its own RPC thread
VARIABLES
    cs_wallet,      \* thread holding the wallet lock, 0 when it is free
    mapTempRecords, \* temporary output records of the wallet
    lockedCoins,    \* outpoints locked with LockCoin
    fundPc,         \* position of fundrawtransactionfrom
    fundReq,        \* the request: transaction, input_amounts, output_amounts, options
    fundSel,        \* inputs the wallet added to fund the transaction
    fundVin,        \* tx.vin of the transaction being returned
    fundResult,     \* reply: kind, error message, output index the message names
    blindsPc,       \* position of transactionblinds
    blindsResult,   \* reply of transactionblinds
    lastAccess      \* history: the latest access to mapRecords / mapTempRecords

fundVars == <<cs_wallet, mapTempRecords, lockedCoins, fundPc, fundReq, fundSel,
              fundVin, fundResult, blindsPc, blindsResult, lastAccess>>

\* createrawparttransaction
VARIABLES
    rawPc,          \* position of createrawparttransaction
    rawReq,         \* vecSend.size() after ExpandTempRecipients
    rawVpoutSize,   \* rawTx.vpout.size()
    rawLastN,       \* r.n of the output built last, -1 before the first
    rawDistinct     \* history: every r.n assigned so far was a new one

rawVars == <<rawPc, rawReq, rawVpoutSize, rawLastN, rawDistinct>>

\* debugwallet list_frozen_outputs, listunspentanon and listunspentblind
VARIABLES
    frozenPc,       \* position of debugwallet list_frozen_outputs
    frozenArgs,     \* max_frozen_output_spendable
    frozenResult,   \* frozen_outputs of the reply, in reply order
    frozenTotals,   \* num_spendable, total_spendable, num_unspendable, total_unspendable
    listPc,         \* position of listunspentanon / listunspentblind
    listArgs,       \* which of the two, minconf, maxconf, the address filter
    vecOutputs,     \* std::vector<COutputR> filled by AvailableAnonCoins / AvailableBlindedCoins
    listResult,     \* outpoints of the reply
    txDepth,        \* txid -> depth of the wallet transaction in the main chain
    outAddress      \* txid -> stealth address its outputs resolve to, or "unknown"

listVars == <<frozenPc, frozenArgs, frozenResult, frozenTotals, listPc, listArgs,
              vecOutputs, listResult, txDepth, outAddress>>

\* state of the handlers other than the tracer
\* generatematchingblindfactor
VARIABLES
    matchArgs,      \* blind_in and blind_out of the request
    matchResult,    \* the reply, or the error thrown
    debugPc,        \* position of debugwallet's record check
    debugErrors,    \* UniValue errors (array) of debugwallet
    parseReq,       \* request whose outputs or inputs carry blinding factors
    parsePc,        \* position of the loop over its outputs or inputs
    parseK,         \* index of the entry the loop is at
    parseSelected,  \* coin_control.setSelected, by index of the entry
    parseBuilt,     \* recipients pushed to vecSend / entries of m_inputData
    parseError      \* message of the error thrown

matchVars == <<matchArgs, matchResult>>
debugVars == <<debugPc, debugErrors>>
parseVars == <<parseReq, parsePc, parseK, parseSelected, parseBuilt, parseError>>

\* CTransactionRecord: block position and times of one record
VARIABLES
    txRecord,       \* blockHash, nIndex, nBlockTime, nTimeReceived
    txTime          \* last call of GetTxTime: the record it read and its result

recordVars == <<txRecord, txTime>>

VARIABLES
    set_placed,     \* the static set of pairs <<input txid, spending txid>>
    placeGraph,     \* traced_txns and top_level of the traces that build their output
    placePc,        \* trace call -> "idle", "build" or "done"
    placeTop,       \* trace call -> position in top_level
    placeStack,     \* trace call -> the frames of placeTracedInputTxns
    placeOut,       \* trace call -> the "inputs" entries written, in order
    placeStart      \* trace call -> set_placed when the call began to build

placeVars == <<set_placed, placeGraph, placePc, placeTop, placeStack, placeOut, placeStart>>

\* debugwallet spend_frozen_output
VARIABLES
    spendTxs,       \* the transactions submitted, each by the outpoints it spends
    spendError      \* "error" of the reply or message of the error thrown

spendVars == <<spendTxs, spendError>>
miscVars == <<recordVars, placeVars, spendVars>>
rpcVars == <<matchVars, debugVars, parseVars, miscVars>>

nonTraceVars == <<sendVars, dbVars, verifyVars, fundVars, rawVars, listVars, rpcVars>>

vars == <<traceVars, nonTraceVars>>

\* ------------------------------------------------------------------------
\* Record types
\* ------------------------------------------------------------------------
NoOutputRecord == [present |-> FALSE, nType |-> "null", owned |-> FALSE, nValue |-> -1]

NoRecord == [present |-> FALSE, inType |-> "plain", in_height |-> FALSE,
             vin |-> <<>>, vout |-> [n \in OutIdx |-> NoOutputRecord]]

NoStoredTx == [present |-> FALSE, blinds |-> {}]

NoOp == [hash |-> NullTx, n |-> 0]

\* struct TracedOutput, default constructed
NewTracedOutput == [present |-> TRUE, m_n |-> -1, m_type |-> "null", m_value |-> 0, m_blind |-> 0,
                    m_spentby |-> NullTx, m_is_spent |-> FALSE, m_forced |-> FALSE,
                    m_anon_index |-> -1, m_key_valid |-> FALSE]

NoTracedOutput == [present |-> FALSE, m_n |-> -1, m_type |-> "null", m_value |-> 0,
                   m_blind |-> 0, m_spentby |-> NullTx, m_is_spent |-> FALSE,
                   m_forced |-> FALSE, m_anon_index |-> -1, m_key_valid |-> FALSE]

\* struct TracedTx, default constructed; present = key is in the map
NewTracedTx == [present |-> TRUE, m_input_type |-> "unset", m_wallets |-> <<>>,
                m_inputs |-> <<>>, m_outputs |-> [n \in OutIdx |-> NoTracedOutput]]

NoTracedTx == [present |-> FALSE, m_input_type |-> "unset", m_wallets |-> <<>>,
               m_inputs |-> <<>>, m_outputs |-> [n \in OutIdx |-> NoTracedOutput]]

\* ------------------------------------------------------------------------
\* Helpers
\* ------------------------------------------------------------------------
SeqToSet(s) == {s[i] : i \in 1..Len(s)}

OpLess(a, b) == a.hash < b.hash \/ (a.hash = b.hash /\ a.n < b.n)

\* iteration order of a std::set<COutPoint>
RECURSIVE SortOps(_)
SortOps(S) ==
    IF S = {} THEN <<>>
    ELSE LET m == CHOOSE x \in S : \A y \in S : x = y \/ OpLess(x, y)
         IN <<m>> \o SortOps(S \ {m})

\* CTransactionRecord::GetOutput
GetOutput(rtx, n) == IF n \in OutIdx THEN rtx.vout[n] ELSE NoOutputRecord

\* CStoredTransaction::GetBlind: the blinding factor stored for output n, 0 if none
GetBlind(stx, txid, n) == IF n \in stx.blinds THEN 1 + txid * NumOut + n ELSE 0

\* CHDWallet::IsSpent
IsSpent(w, txid, n) == [hash |-> txid, n |-> n] \in spentOuts[w]

\* anon output index of an outpoint in the chain's index space
AnonIndex(op) == 1 + op.hash * NumOut + op.n

\* ------------------------------------------------------------------------
\* Handlers at rest
\* ------------------------------------------------------------------------
NoSendArgs == [fCheckFeeOnly |-> FALSE, fSubmitTx |-> TRUE, fTestMempoolAccept |-> FALSE]

SendIdle ==
    /\ sendPc = [t \in Senders |-> "idle"]
    /\ sendArgs = [t \in Senders |-> NoSendArgs]
    /\ sendSel = [t \in Senders |-> {}]
    /\ sendResult = [t \in Senders |-> "none"]
    /\ sendHist = [t \in Senders |-> [mempool |-> "none", commit |-> FALSE]]

NoWalletTx == [present |-> FALSE, coinstake |-> FALSE, abandoned |-> FALSE]

NoTxn == [active |-> FALSE, delTx |-> {}, delRtx |-> {}, sx |-> {}]

NoDeriveArgs == [stealth_v2 |-> FALSE, fSave |-> FALSE, num_keys |-> 1, hasChain |-> TRUE]

NoSnap == [dbTx |-> {}, dbRtx |-> {}, wallet |-> {}, stale |-> {}, records |-> {}]

\* no handler that uses the database is running
DbHandlersIdle ==
    /\ dbTxn = NoTxn
    /\ clearPc = "idle" /\ clearArgs = [fRemoveAll |-> FALSE] /\ clearCursor = <<>>
    /\ clearCount = [nRemoved |-> 0, nRecordsRemoved |-> 0]
    /\ clearSnap = NoSnap
    /\ txnAbortCalls = 0
    /\ derivePc = "idle" /\ deriveArgs = NoDeriveArgs /\ deriveK = 0
    /\ stealthAddrs = [mem |-> {}, db |-> {}]

DbIdle ==
    /\ dbTx = {} /\ dbRtx = {}
    /\ mapWallet = [t \in TxIds |-> NoWalletTx]
    /\ DbHandlersIdle

NoVerifyArgs == [commitment |-> <<>>, blind |-> <<>>, amount |-> <<>>]

VerifyIdle ==
    /\ verifyArgs = NoVerifyArgs /\ verifyResult = "none" /\ verifyPrev = NoVerifyArgs

NoFundReq == [vin |-> <<>>, inputAmounts |-> {}, vpout |-> <<>>,
              outputAmounts |-> <<>>, lockUnspents |-> FALSE, optInputs |-> {},
              optData |-> {}]

NoResult == [kind |-> "none", msg |-> "", output |-> -1]

NoAccess == [thread |-> 0, map |-> "", locked |-> FALSE]

FundIdle ==
    /\ cs_wallet = 0 /\ mapTempRecords = {} /\ lockedCoins = {}
    /\ fundPc = "idle" /\ fundReq = NoFundReq /\ fundSel = {} /\ fundVin = <<>>
    /\ fundResult = NoResult
    /\ blindsPc = "idle" /\ blindsResult = NoResult
    /\ lastAccess = NoAccess

RawIdle ==
    /\ rawPc = "idle" /\ rawReq = 0 /\ rawVpoutSize = 0 /\ rawLastN = -1
    /\ rawDistinct = TRUE

NoTotals == [num_spendable |-> 0, total_spendable |-> 0,
             num_unspendable |-> 0, total_unspendable |-> 0]

NoListArgs == [kind |-> "anon", nMinDepth |-> 1, nMaxDepth |-> 1, setAddress |-> {}]

FrozenIdle ==
    /\ frozenPc = "idle" /\ frozenArgs = [max_frozen_output_spendable |-> 0]
    /\ frozenResult = <<>> /\ frozenTotals = NoTotals

UnspentIdle ==
    /\ listPc = "idle" /\ listArgs = NoListArgs /\ vecOutputs = {} /\ listResult = {}
    /\ txDepth = [t \in TxIds |-> 1]
    /\ outAddress = [t \in TxIds |-> "unknown"]

ListIdle == FrozenIdle /\ UnspentIdle

MatchIdle ==
    /\ matchArgs = [inputs |-> <<>>, outputs |-> <<>>]
    /\ matchResult = [kind |-> "none", blind |-> <<>>, msg |-> ""]

DebugIdle == debugPc = "idle" /\ debugErrors = <<>>

ParseIdle ==
    /\ parseReq = [op |-> "none", typeOut |-> "null", items |-> <<>>]
    /\ parsePc = "idle" /\ parseK = 1 /\ parseSelected = {} /\ parseBuilt = <<>>
    /\ parseError = ""

RecordIdle ==
    /\ txRecord = [blockHash |-> "null", nIndex |-> 0, nBlockTime |-> 0,
                   nTimeReceived |-> 0]
    /\ txTime = [called |-> FALSE, rec |-> txRecord, value |-> 0]

Placers == {1, 2}

PlaceIdle ==
    /\ set_placed = {}
    /\ placeGraph = [inputs |-> [t \in TxIds |-> <<>>], top_level |-> <<>>]
    /\ placePc = [c \in Placers |-> "idle"]
    /\ placeTop = [c \in Placers |-> 1]
    /\ placeStack = [c \in Placers |-> <<>>]
    /\ placeOut = [c \in Placers |-> <<>>]
    /\ placeStart = [c \in Placers |-> {}]

SpendIdle == spendTxs = <<>> /\ spendError = ""

MiscIdle == RecordIdle /\ PlaceIdle /\ SpendIdle

RpcIdle == MatchIdle /\ DebugIdle /\ ParseIdle /\ MiscIdle

NonTraceIdle ==
    SendIdle /\ DbIdle /\ VerifyIdle /\ FundIdle /\ RawIdle /\ ListIdle /\ RpcIdle

\* ------------------------------------------------------------------------
\* traceFrozenPrevout: one frame per active call
\* ------------------------------------------------------------------------
NewFrame(op, spentby) ==
    [op |-> op, spentby |-> spentby, pc |-> "enter", w |-> 1, i |-> 1,
     haveAtEntry |-> traced_txns[op.hash].present
                     /\ traced_txns[op.hash].m_outputs[op.n].present]

Top == traceStack[Len(traceStack)]
Pop == SubSeq(traceStack, 1, Len(traceStack) - 1)
SetTop(f) == [traceStack EXCEPT ![Len(traceStack)] = f]

\* variant: the already-have check never fires
AlreadyHave_Never(op, txns) == FALSE /\ txns[op.hash].present

\* the early return at the head of traceFrozenPrevout
AlreadyHave(op, txns) ==
    txns[op.hash].present /\ txns[op.hash].m_outputs[op.n].present

\* traced_txs.insert(...) followed by the input type and wallet name updates
TouchTracedTx(ttx, rtx, w) ==
    LET base == IF ttx.present THEN ttx ELSE NewTracedTx
    IN [base EXCEPT !.m_input_type = rtx.inType,
                    !.m_wallets = IF w \in SeqToSet(base.m_wallets)
                                  THEN base.m_wallets
                                  ELSE Append(base.m_wallets, w)]

\* the block of traceFrozenPrevout that records output r of transaction op.hash
RecordOutput(ttx, op, r, w, spentby, stx, linkOk, keyOk) ==
    LET old == IF ttx.m_outputs[op.n].present THEN ttx.m_outputs[op.n]
               ELSE NewTracedOutput
        o1 == [old EXCEPT !.m_type = IF r.nType = "anon" THEN "anon" ELSE "blind",
                          !.m_n = op.n,
                          !.m_anon_index = IF r.nType = "anon" /\ linkOk
                                           THEN AnonIndex(op) ELSE 0,
                          !.m_spentby = spentby]
        o2 == IF o1.m_blind = 0
              THEN [o1 EXCEPT !.m_value = r.nValue,
                              !.m_is_spent = IsSpent(w, op.hash, op.n),
                              !.m_blind = GetBlind(stx, op.hash, op.n)]
              ELSE o1
        o3 == IF r.nType = "anon" /\ ~o2.m_key_valid
              THEN [o2 EXCEPT !.m_key_valid = keyOk]
              ELSE o2
    IN [ttx EXCEPT !.m_outputs[op.n] = o3]

\* variant: failed reads are passed over silently
RecordWarnings_None(ttx, op, r, stx, linkOk, keyOk) == <<>>

\* warnings pushed while recording output r
RecordWarnings(ttx, op, r, stx, linkOk, keyOk) ==
    LET old == IF ttx.m_outputs[op.n].present THEN ttx.m_outputs[op.n]
               ELSE NewTracedOutput
        w1 == IF r.nType = "anon" /\ ~linkOk
              THEN <<[kind |-> "ReadRCTOutputLink", hash |-> op.hash, n |-> op.n]>>
              ELSE <<>>
        w2 == IF old.m_blind = 0 /\ GetBlind(stx, op.hash, op.n) = 0
              THEN <<[kind |-> "GetBlind", hash |-> op.hash, n |-> op.n]>>
              ELSE <<>>
        w3 == IF r.nType = "anon" /\ ~old.m_key_valid /\ ~keyOk
              THEN <<[kind |-> "GetKey", hash |-> op.hash, n |-> op.n]>>
              ELSE <<>>
    IN w1 \o w2 \o w3

traceRest == <<mapRecords, storedTx, spentOuts, walletLocked, chain, traceArgs,
               scanW, top_level, set_forced, nonTraceVars>>

\* variant: the lookup block's lock is still held during the recursive call
LockAcrossCall_Held(w) == {w}

\* locks a frame of wallet w holds while its recursive call runs: the block
\* that takes cs_wallet for the lookup is closed before the loop over rtx.vin
LockAcrossCall(w) == {}

\* locks held by the callers of the running call
HeldBelow(stack) ==
    UNION {LockAcrossCall(stack[i].w) : i \in 1..(Len(stack) - 1)}

\* variant: the lookup uses operator[] and inserts a missing record
RecordsAfterFind_Insert(records, w, txid) ==
    [records EXCEPT ![w][txid] = IF @.present THEN @ ELSE [@ EXCEPT !.present = TRUE]]

\* pwallet->mapRecords after mapRecords.find(op.hash)
RecordsAfterFind(records, w, txid) == records

\* entry of traceFrozenPrevout: the already-have check
TraceCall ==
    /\ tracePhase = "walk" /\ traceStack # <<>> /\ Top.pc = "enter"
    /\ IF AlreadyHave(Top.op, traced_txns)
       THEN /\ traceStack' = Pop
            /\ skipCount' = [skipCount EXCEPT ![Top.op.hash] = @ + 1]
       ELSE /\ traceStack' = SetTop([Top EXCEPT !.pc = "wallet", !.w = 1])
            /\ UNCHANGED skipCount
    /\ traceLocks' = HeldBelow(traceStack)
    /\ UNCHANGED <<traceRest, tracePhase, walkTodo, walkCur, traced_txns,
                   warnings, expandCount>>

\* head of the wallet loop: find the record under the wallet lock
TraceFind ==
    /\ tracePhase = "walk" /\ traceStack # <<>> /\ Top.pc = "wallet"
    /\ traceLocks' = HeldBelow(traceStack)
                        \cup (IF Top.w > NumWallets THEN {} ELSE {Top.w})
    /\ mapRecords' = IF Top.w > NumWallets THEN mapRecords
                     ELSE RecordsAfterFind(mapRecords, Top.w, Top.op.hash)
    /\ IF Top.w > NumWallets
       THEN /\ traceStack' = Pop
            /\ UNCHANGED <<traced_txns, expandCount>>
       ELSE LET rtx == mapRecords[Top.w][Top.op.hash] IN
            IF ~rtx.present
            THEN /\ traceStack' = SetTop([Top EXCEPT !.w = Top.w + 1])
                 /\ UNCHANGED <<traced_txns, expandCount>>
            ELSE /\ traced_txns' = [traced_txns EXCEPT ![Top.op.hash] =
                                       TouchTracedTx(@, rtx, Top.w)]
                 /\ IF rtx.inType # "plain"
                    THEN /\ traceStack' = SetTop([Top EXCEPT !.pc = "vin", !.i = 1])
                         /\ expandCount' = [expandCount EXCEPT ![Top.op.hash] = @ + 1]
                    ELSE /\ traceStack' = SetTop([Top EXCEPT !.pc = "out"])
                         /\ UNCHANGED expandCount
    /\ UNCHANGED <<storedTx, spentOuts, walletLocked, chain, traceArgs, scanW,
                   top_level, set_forced, nonTraceVars,
                   tracePhase, walkTodo, walkCur, warnings, skipCount>>

\* one iteration of the loop over rtx.vin: the recursive call
TraceVin ==
    /\ tracePhase = "walk" /\ traceStack # <<>> /\ Top.pc = "vin"
    /\ LET rtx == mapRecords[Top.w][Top.op.hash] IN
       IF Top.i > Len(rtx.vin)
       THEN /\ traceStack' = SetTop([Top EXCEPT !.pc = "out"])
            /\ UNCHANGED tracePhase
       ELSE IF Len(traceStack) >= MaxStack
       THEN \* the call stack is exhausted: the process dies
            /\ tracePhase' = "overflow"
            /\ UNCHANGED traceStack
       ELSE /\ traceStack' = Append(SetTop([Top EXCEPT !.pc = "vinret"]),
                                    NewFrame(rtx.vin[Top.i], Top.op.hash))
            /\ UNCHANGED tracePhase
    /\ traceLocks' = HeldBelow(traceStack')
    /\ UNCHANGED <<traceRest, walkTodo, walkCur, traced_txns, warnings, expandCount, skipCount>>

\* after the recursive call returns: remember the input
TraceVinRet ==
    /\ tracePhase = "walk" /\ traceStack # <<>> /\ Top.pc = "vinret"
    /\ LET rtx == mapRecords[Top.w][Top.op.hash]
           op == rtx.vin[Top.i]
       IN traced_txns' = [traced_txns EXCEPT ![Top.op.hash].m_inputs =
                             IF op \in SeqToSet(@) THEN @ ELSE Append(@, op)]
    /\ traceStack' = SetTop([Top EXCEPT !.pc = "vin", !.i = Top.i + 1])
    /\ traceLocks' = HeldBelow(traceStack)
    /\ UNCHANGED <<traceRest, tracePhase, walkTodo, walkCur, warnings, expandCount, skipCount>>

\* tail of the wallet loop: record the traced output under the wallet lock
TraceOut ==
    /\ tracePhase = "walk" /\ traceStack # <<>> /\ Top.pc = "out"
    /\ LET w == Top.w
           op == Top.op
           rtx == mapRecords[w][op.hash]
           r == GetOutput(rtx, op.n)
           stx == storedTx[w][op.hash]
           linkOk == op \in chain.links
           keyOk == op \in chain.keys[w]
       IN IF ~r.present
          THEN UNCHANGED <<traced_txns, warnings>>
          ELSE IF ~stx.present
          THEN /\ warnings' = Append(warnings,
                      [kind |-> "ReadStoredTx", hash |-> op.hash, n |-> -1])
               /\ UNCHANGED traced_txns
          ELSE /\ traced_txns' = [traced_txns EXCEPT ![op.hash] =
                      RecordOutput(@, op, r, w, Top.spentby, stx, linkOk, keyOk)]
               /\ warnings' = warnings \o
                      RecordWarnings(traced_txns[op.hash], op, r, stx, linkOk, keyOk)
    /\ traceStack' = SetTop([Top EXCEPT !.pc = "wallet", !.w = Top.w + 1])
    /\ traceLocks' = HeldBelow(traceStack)
                        \cup (IF GetOutput(mapRecords[Top.w][Top.op.hash], Top.op.n).present
                              THEN {Top.w} ELSE {})
    /\ UNCHANGED <<traceRest, tracePhase, walkTodo, walkCur, expandCount, skipCount>>

\* ------------------------------------------------------------------------
\* traceFrozenOutputs
\* ------------------------------------------------------------------------
\* the stored transaction of wallet w can be read and its output n has an
\* anon index link in the chain view
AnonLinkReadable(w, op) == storedTx[w][op.hash].present /\ op \in chain.links

\* one iteration of the top-level loop over rtx.vout: "warn", "add" or "skip"
ScanOutput(w, txid, r, n) ==
    LET op == [hash |-> txid, n |-> n]
        rtx == mapRecords[w][txid]
        force_include == op \in traceArgs.extra_txouts
        notCandidate == (r.nType # "anon" /\ r.nType # "blind")
                        \/ ~r.owned \/ r.nValue < traceArgs.min_value
        blacklisted == r.nType = "anon" /\ AnonIndex(op) \in chain.blacklist
        overLimit == r.nValue > traceArgs.max_frozen_output_spendable
        frozenAnon == overLimit /\ r.nType = "anon"
                      /\ AnonIndex(op) \notin chain.whitelist
        frozenBlind == overLimit /\ r.nType = "blind" /\ txid \in chain.frozen_blind
        is_spendable == ~blacklisted /\ ~frozenAnon /\ ~frozenBlind
    IN IF ~rtx.in_height /\ ~force_include THEN "skip"
       ELSE IF notCandidate /\ ~force_include THEN "skip"
       ELSE IF IsSpent(w, txid, n) /\ ~force_include THEN "skip"
       ELSE IF r.nType = "anon" /\ ~AnonLinkReadable(w, op) THEN "warn"
       ELSE IF is_spendable /\ ~force_include THEN "skip"
       ELSE "add"

\* outpoints of wallet w with the given result of ScanOutput
ScanResult(w, res) ==
    {op \in Outpoints : /\ mapRecords[w][op.hash].present
                        /\ mapRecords[w][op.hash].vout[op.n].present
                        /\ ScanOutput(w, op.hash, mapRecords[w][op.hash].vout[op.n], op.n) = res}

AnonIndexWarnings(ops) ==
    [i \in 1..Len(ops) |-> [kind |-> "AnonIndex", hash |-> ops[i].hash, n |-> ops[i].n]]

\* variant: only the first wallet is tested
AnyWalletLocked_First(locked) == locked[1]

\* the loop "Ensure all wallets are unlocked" finds a locked wallet
AnyWalletLocked(locked) == \E w \in Wallets : locked[w]

\* parse the extra outputs, then "Ensure all wallets are unlocked"
TraceStart ==
    /\ tracePhase = "idle"
    /\ IF AnyWalletLocked(walletLocked)
       THEN tracePhase' = "failed"
       ELSE tracePhase' = "scan"
    /\ scanW' = 1
    /\ traceLocks' = {}
    /\ UNCHANGED <<nonTraceVars, mapRecords, storedTx, spentOuts, walletLocked, chain, traceArgs,
                   top_level, set_forced, walkTodo, walkCur, traced_txns, warnings,
                   traceStack, expandCount, skipCount>>

\* the top-level search of one wallet's records, under that wallet's lock
TraceScan ==
    /\ tracePhase = "scan"
    /\ LET add == ScanResult(scanW, "add")
       IN /\ top_level' = top_level \cup add
          /\ set_forced' = set_forced \cup
                              ((add \ top_level) \cap traceArgs.extra_txouts)
          /\ warnings' = warnings \o AnonIndexWarnings(SortOps(ScanResult(scanW, "warn")))
          /\ IF scanW = NumWallets
             THEN /\ tracePhase' = "walk"
                  /\ walkTodo' = SortOps(top_level \cup add)
                  /\ scanW' = 1
             ELSE /\ scanW' = scanW + 1
                  /\ UNCHANGED <<tracePhase, walkTodo>>
    /\ traceLocks' = {scanW}
    /\ UNCHANGED <<nonTraceVars, mapRecords, storedTx, spentOuts, walletLocked, chain, traceArgs,
                   walkCur, traced_txns, traceStack, expandCount, skipCount>>

\* loop over top_level: call traceFrozenPrevout(op, null)
TraceWalkNext ==
    /\ tracePhase = "walk" /\ traceStack = <<>> /\ walkCur = NoOp
    /\ IF walkTodo = <<>>
       THEN /\ tracePhase' = "fill"
            /\ UNCHANGED <<walkTodo, walkCur, traceStack>>
       ELSE /\ walkCur' = Head(walkTodo)
            /\ walkTodo' = Tail(walkTodo)
            /\ traceStack' = <<NewFrame(Head(walkTodo), NullTx)>>
            /\ UNCHANGED tracePhase
    /\ traceLocks' = {}
    /\ UNCHANGED <<traceRest, traced_txns, warnings, expandCount, skipCount>>

\* loop over top_level: after the call, make sure the entry exists and mark forced
TraceWalkRet ==
    /\ tracePhase = "walk" /\ traceStack = <<>> /\ walkCur # NoOp
    /\ LET t == walkCur.hash
           base == IF traced_txns[t].present THEN traced_txns[t] ELSE NewTracedTx
           out == IF base.m_outputs[walkCur.n].present
                  THEN base.m_outputs[walkCur.n] ELSE NewTracedOutput
       IN traced_txns' = [traced_txns EXCEPT ![t] =
             IF walkCur \in set_forced
             THEN [base EXCEPT !.m_outputs[walkCur.n] = [out EXCEPT !.m_forced = TRUE]]
             ELSE base]
    /\ walkCur' = NoOp
    /\ traceLocks' = {}
    /\ UNCHANGED <<traceRest, tracePhase, walkTodo, warnings, traceStack, expandCount, skipCount>>

\* "Fill in all known tx outputs": output n of an already traced transaction
FillOutput(w, txid, n) ==
    LET r == mapRecords[w][txid].vout[n]
        op == [hash |-> txid, n |-> n]
    IN [NewTracedOutput EXCEPT
          !.m_type = IF r.nType = "anon" THEN "anon" ELSE "blind",
          !.m_value = r.nValue,
          !.m_n = n,
          !.m_anon_index = IF r.nType = "anon" /\ op \in chain.links
                           THEN AnonIndex(op) ELSE -1,
          !.m_is_spent = IsSpent(w, txid, n),
          !.m_blind = GetBlind(storedTx[w][txid], txid, n)]

\* outputs of txid the fill loop of wallet w adds
FillSet(w, txid) ==
    {n \in OutIdx : LET r == mapRecords[w][txid].vout[n]
                    IN /\ r.present /\ r.nType \in {"anon", "blind"} /\ r.owned
                       /\ ~traced_txns[txid].m_outputs[n].present}

RECURSIVE FillWarnings(_, _)
FillWarnings(w, ops) ==
    IF ops = <<>> THEN <<>>
    ELSE LET op == Head(ops)
             rtx == mapRecords[w][op.hash]
             r == rtx.vout[op.n]
             here == IF op.n = -1
                     THEN <<[kind |-> "ReadStoredTx", hash |-> op.hash, n |-> -1]>>
                     ELSE (IF r.nType = "anon" /\ op \notin chain.links
                           THEN <<[kind |-> "ReadRCTOutputLink", hash |-> op.hash, n |-> op.n]>>
                           ELSE <<>>)
                          \o
                          (IF GetBlind(storedTx[w][op.hash], op.hash, op.n) = 0
                           THEN <<[kind |-> "GetBlind", hash |-> op.hash, n |-> op.n]>>
                           ELSE <<>>)
         IN here \o FillWarnings(w, Tail(ops))

\* the fill loop of one wallet, under that wallet's lock
TraceFill ==
    /\ tracePhase = "fill"
    /\ LET w == scanW
           hit == {t \in TxIds : mapRecords[w][t].present /\ traced_txns[t].present}
           readable == {t \in hit : storedTx[w][t].present}
           visited == {[hash |-> t, n |-> -1] : t \in hit \ readable}
                      \cup {op \in Outpoints : op.hash \in readable
                                               /\ op.n \in FillSet(w, op.hash)}
       IN /\ traced_txns' = [t \in TxIds |->
                IF t \in readable
                THEN [traced_txns[t] EXCEPT !.m_outputs =
                        [n \in OutIdx |-> IF n \in FillSet(w, t)
                                          THEN FillOutput(w, t, n) ELSE @[n]]]
                ELSE traced_txns[t]]
          /\ warnings' = warnings \o FillWarnings(w, SortOps(visited))
    /\ IF scanW = NumWallets
       THEN tracePhase' = "place" /\ scanW' = 1
       ELSE scanW' = scanW + 1 /\ UNCHANGED tracePhase
    /\ traceLocks' = {scanW}
    /\ UNCHANGED <<nonTraceVars, mapRecords, storedTx, spentOuts, walletLocked, chain, traceArgs,
                   top_level, set_forced, walkTodo, walkCur, traceStack, expandCount, skipCount>>

\* build the reply and return
TraceFinish ==
    /\ tracePhase = "place"
    /\ tracePhase' = "done"
    /\ traceLocks' = {}
    /\ UNCHANGED <<nonTraceVars, mapRecords, storedTx, spentOuts, walletLocked, chain, traceArgs,
                   scanW, top_level, set_forced, walkTodo, walkCur, traced_txns,
                   warnings, traceStack, expandCount, skipCount>>

TraceNext ==
    \/ TraceStart \/ TraceScan \/ TraceWalkNext \/ TraceCall \/ TraceFind
    \/ TraceVin \/ TraceVinRet \/ TraceOut \/ TraceWalkRet \/ TraceFill
    \/ TraceFinish

\* ------------------------------------------------------------------------
\* Initial states of the tracer: wallets holding a small transaction graph
\* ------------------------------------------------------------------------
Edges == [src : TxIds, op : Outpoints]
EdgeLists == UNION {[1..k -> Edges] : k \in 0..MaxEdges}

VinOf(edges, t) ==
    LET s == SelectSeq(edges, LAMBDA e : e.src = t)
    IN [i \in 1..Len(s) |-> s[i].op]

\* CAmount min_frozen_blinded_value in debugwallet
min_frozen_blinded_value == 10000

\* output values around the spendable limit used in the initial states
LowValue == min_frozen_blinded_value
SpendableLimit == LowValue + 1
HighValue == SpendableLimit + 1

BlindOutputs == [n \in OutIdx |->
    [present |-> TRUE, nType |-> "blind", owned |-> TRUE,
     nValue |-> IF n = 0 THEN HighValue ELSE LowValue]]

TraceIdle ==
    /\ tracePhase = "idle" /\ scanW = 1 /\ top_level = {} /\ set_forced = {}
    /\ walkTodo = <<>> /\ walkCur = NoOp
    /\ traced_txns = [t \in TxIds |-> NoTracedTx]
    /\ warnings = <<>> /\ traceStack = <<>>
    /\ expandCount = [t \in TxIds |-> 0]
    /\ skipCount = [t \in TxIds |-> 0]
    /\ traceLocks = {}

InitTrace ==
    /\ \E edges \in EdgeLists, held2 \in SUBSET TxIds, frozen \in SUBSET TxIds :
         /\ \A t \in TxIds : Len(VinOf(edges, t)) <= MaxVin
         /\ Cardinality(held2) <= 1
         /\ frozen # {} /\ Cardinality(frozen) <= 2
         /\ mapRecords = [w \in Wallets |-> [t \in TxIds |->
               IF w = 1 \/ t \in held2
               THEN [present |-> TRUE,
                     inType |-> IF VinOf(edges, t) = <<>> THEN "plain" ELSE "blind",
                     in_height |-> TRUE, vin |-> VinOf(edges, t), vout |-> BlindOutputs]
               ELSE NoRecord]]
         /\ chain = [frozen_blind |-> frozen, links |-> {}, blacklist |-> {},
                     whitelist |-> {}, keys |-> [w \in Wallets |-> {}]]
    /\ storedTx = [w \in Wallets |-> [t \in TxIds |->
          IF mapRecords[w][t].present THEN [present |-> TRUE, blinds |-> OutIdx]
          ELSE NoStoredTx]]
    /\ spentOuts = [w \in Wallets |-> {}]
    /\ walletLocked = [w \in Wallets |-> FALSE]
    /\ traceArgs = [min_value |-> min_frozen_blinded_value,
                    max_frozen_output_spendable |-> SpendableLimit,
                    extra_txouts |-> {}]
    /\ TraceIdle
    /\ NonTraceIdle

SpecTrace == InitTrace /\ [][TraceNext]_vars

\* ------------------------------------------------------------------------
\* Properties of the tracer
\* ------------------------------------------------------------------------
\* C1: a frozen-output trace terminates for every set of records, also when
\* two records list each other's outputs as inputs: the recursion of
\* traceFrozenPrevout never runs until the call stack is exhausted.
C1_TraceTerminates == tracePhase # "overflow"

IsPrefix(a, b) == Len(a) <= Len(b) /\ SubSeq(b, 1, Len(a)) = a

SendWallet == 1

\* outputs of the wallet that coin selection may choose
Unspent ==
    {op \in Outpoints : /\ mapRecords[SendWallet][op.hash].present
                        /\ mapRecords[SendWallet][op.hash].vout[op.n].present
                        /\ ~IsSpent(SendWallet, op.hash, op.n)}

\* input sets AddStandardInputs / AddBlindedInputs / AddAnonInputs may return
Selections == {S \in SUBSET Unspent : S # {} /\ Cardinality(S) <= MaxVin}

SendArgSets == [fCheckFeeOnly : BOOLEAN, fSubmitTx : BOOLEAN, fTestMempoolAccept : BOOLEAN]

\* CommitTransaction accepts a transaction whose inputs are all still unspent
CommitAccepts(S) == S \subseteq Unspent

sendRest == <<traceVars, dbVars, verifyVars, fundVars, rawVars, listVars, rpcVars>>

\* entry of SendToInner up to the coin control options
SendBegin(t) ==
    /\ sendPc[t] = "idle"
    /\ \E a \in SendArgSets : sendArgs' = [sendArgs EXCEPT ![t] = a]
    /\ sendPc' = [sendPc EXCEPT ![t] = "inputs"]
    /\ UNCHANGED <<sendSel, sendResult, sendHist, sendRest>>

\* the switch on typeIn: AddXInputs selects the inputs of wtx
SendAddInputs(t) ==
    /\ sendPc[t] = "inputs"
    /\ \/ /\ \E S \in Selections : sendSel' = [sendSel EXCEPT ![t] = S]
          /\ sendPc' = [sendPc EXCEPT ![t] = "built"]
          /\ UNCHANGED sendResult
       \/ /\ Selections = {}
          /\ sendPc' = [sendPc EXCEPT ![t] = "failed"]
          /\ sendResult' = [sendResult EXCEPT ![t] = "AddInputs failed"]
          /\ UNCHANGED sendSel
    /\ UNCHANGED <<sendArgs, sendHist, sendRest>>

\* variant: submit_tx is not looked at
ReturnFeeOnly_IgnoreSubmit(a, mempool_allowed) ==
    a.fCheckFeeOnly \/ (a.fTestMempoolAccept /\ ~mempool_allowed)

\* the condition of the return that precedes CommitTransaction
ReturnFeeOnly(a, mempool_allowed) ==
    a.fCheckFeeOnly \/ (a.fTestMempoolAccept /\ ~mempool_allowed) \/ ~a.fSubmitTx

\* the fee report, then CommitTransaction
SendCommit(t) ==
    /\ sendPc[t] = "built"
    /\ \E mempool_allowed \in BOOLEAN :
         LET a == sendArgs[t] IN
         /\ sendHist' = [sendHist EXCEPT ![t] =
                [mempool |-> IF ~a.fTestMempoolAccept THEN "none"
                             ELSE IF mempool_allowed THEN "allowed" ELSE "rejected",
                 commit |-> ~ReturnFeeOnly(a, mempool_allowed)]]
         /\ IF ReturnFeeOnly(a, mempool_allowed)
            THEN /\ sendPc' = [sendPc EXCEPT ![t] = "done"]
                 /\ sendResult' = [sendResult EXCEPT ![t] = "fee"]
                 /\ UNCHANGED spentOuts
            ELSE IF CommitAccepts(sendSel[t])
            THEN /\ spentOuts' = [spentOuts EXCEPT ![SendWallet] = @ \cup sendSel[t]]
                 /\ sendPc' = [sendPc EXCEPT ![t] = "done"]
                 /\ sendResult' = [sendResult EXCEPT ![t] = "txid"]
            ELSE /\ sendPc' = [sendPc EXCEPT ![t] = "failed"]
                 /\ sendResult' = [sendResult EXCEPT ![t] = "Transaction commit failed"]
                 /\ UNCHANGED spentOuts
    /\ UNCHANGED <<sendArgs, sendSel, dbVars, verifyVars, fundVars, rawVars, listVars, rpcVars,
                   mapRecords, storedTx, walletLocked, chain, traceArgs,
                   tracePhase, scanW, top_level, set_forced, walkTodo, walkCur,
                   traced_txns, warnings, traceStack, expandCount, skipCount, traceLocks>>

SendNext == \E t \in Senders : SendBegin(t) \/ SendAddInputs(t) \/ SendCommit(t)

InitSend ==
    /\ mapRecords = [w \in Wallets |-> [t \in TxIds |->
          IF w = SendWallet
          THEN [present |-> TRUE, inType |-> "plain", in_height |-> TRUE,
                vin |-> <<>>, vout |-> BlindOutputs]
          ELSE NoRecord]]
    /\ storedTx = [w \in Wallets |-> [t \in TxIds |->
          IF w = SendWallet THEN [present |-> TRUE, blinds |-> OutIdx] ELSE NoStoredTx]]
    /\ \E k \in 0..(MaxVin + 1) :
         LET ops == SortOps(Outpoints)
             spent == {ops[i] : i \in (k + 1)..Len(ops)}
         IN spentOuts = [w \in Wallets |-> IF w = SendWallet THEN spent ELSE {}]
    /\ walletLocked = [w \in Wallets |-> FALSE]
    /\ chain = [frozen_blind |-> {}, links |-> {}, blacklist |-> {},
                whitelist |-> {}, keys |-> [w \in Wallets |-> {}]]
    /\ traceArgs = [min_value |-> min_frozen_blinded_value,
                    max_frozen_output_spendable |-> SpendableLimit,
                    extra_txouts |-> {}]
    /\ TraceIdle
    /\ SendIdle
    /\ DbIdle
    /\ VerifyIdle
    /\ FundIdle
    /\ RawIdle
    /\ ListIdle
    /\ RpcIdle

SpecSend == InitSend /\ [][SendNext]_vars

\* C3: two SendToInner requests on one wallet that have both selected their
\* inputs and neither committed nor failed yet hold disjoint sets of inputs.
C3_NoSharedInput ==
    \A t1, t2 \in Senders :
        (t1 # t2 /\ sendPc[t1] = "built" /\ sendPc[t2] = "built")
            => sendSel[t1] \cap sendSel[t2] = {}

\* C19: a sendtypeto request with test_fee set, with submit_tx false, or
\* with test_mempool_accept set and a rejecting mempool test never reaches
\* CommitTransaction: it leaves the spent outputs of the wallet as they
\* are and its reply is the fee report, not a transaction id.
C19_NoCommitWhenTesting ==
    \A t \in Senders :
        LET a == sendArgs[t] IN
        /\ sendPc[t] \in {"done", "failed"} /\ sendSel[t] # {}
        /\ \/ a.fCheckFeeOnly
           \/ ~a.fSubmitTx
           \/ a.fTestMempoolAccept /\ sendHist[t].mempool = "rejected"
        => /\ ~sendHist[t].commit
           /\ sendResult[t] = "fee"
           /\ \/ sendSel[t] \cap spentOuts[SendWallet] = {}
              \/ \E u \in Senders \ {t} :
                    sendHist[u].commit /\ sendSel[u] \cap sendSel[t] # {}

\* one request returned the fee report because the mempool test rejected
\* its transaction, while another request committed
C19_Witness ==
    \E t, u \in Senders :
        /\ sendPc[t] = "done" /\ sendResult[t] = "fee"
        /\ sendArgs[t] = [fCheckFeeOnly |-> FALSE, fSubmitTx |-> TRUE,
                          fTestMempoolAccept |-> TRUE]
        /\ sendHist[t].mempool = "rejected"
        /\ sendSel[t] \cap spentOuts[SendWallet] = {}
        /\ sendResult[u] = "txid"

\* ------------------------------------------------------------------------
\* Wallet database transactions: clearwallettransactions, deriverangekeys
\* ------------------------------------------------------------------------
MaxKeys == 2

DbWallet == 1

\* iteration order of the keys of one type under the cursor
RECURSIVE SortIds(_)
SortIds(S) ==
    IF S = {} THEN <<>>
    ELSE LET m == CHOOSE x \in S : \A y \in S : x <= y
         IN <<m>> \o SortIds(S \ {m})

\* the ledger: persisted keys and the transactions loaded in memory
Ledger ==
    [dbTx |-> dbTx, dbRtx |-> dbRtx,
     wallet |-> {t \in TxIds : mapWallet[t].present},
     stale |-> {t \in TxIds : mapWallet[t].present /\ mapWallet[t].coinstake
                                                   /\ mapWallet[t].abandoned},
     records |-> {t \in TxIds : mapRecords[DbWallet][t].present}]

\* CHDWallet::UnloadTransaction: drop the transaction from the maps in memory
UnloadWallet(mw, hash) == [mw EXCEPT ![hash] = NoWalletTx]
UnloadRecords(mr, hash) == [mr EXCEPT ![DbWallet][hash] = NoRecord]

NewTxn == [active |-> TRUE, delTx |-> {}, delRtx |-> {}, sx |-> {}]

clearRest == <<traceVars, sendVars, verifyVars, fundVars, rawVars, listVars, rpcVars, derivePc, deriveArgs, deriveK, stealthAddrs>>
walletRest == <<storedTx, spentOuts, walletLocked, chain, traceArgs,
                tracePhase, scanW, top_level, set_forced, walkTodo, walkCur,
                traced_txns, warnings, traceStack, expandCount, skipCount, traceLocks,
                sendVars, verifyVars, fundVars, rawVars, listVars, rpcVars, derivePc, deriveArgs,
                deriveK,
                stealthAddrs>>

\* variant: every abandoned transaction is removed, coinstake or not
ClearSkips_KeepsUnabandoned(fRemoveAll, pcoin) ==
    ~fRemoveAll /\ (~pcoin.present \/ ~pcoin.abandoned)

\* the "tx" loop leaves the key at the cursor alone
ClearSkips(fRemoveAll, pcoin) ==
    ~fRemoveAll /\ (~pcoin.present \/ ~pcoin.coinstake \/ ~pcoin.abandoned)

\* clearwallettransactions up to the first ReadKeyAtCursor
ClearBegin ==
    /\ clearPc = "idle" /\ derivePc = "idle"
    /\ clearSnap' = Ledger
    /\ \E all \in BOOLEAN : clearArgs' = [fRemoveAll |-> all]
    /\ \E outcome \in {"ok", "TxnBegin failed.", "GetTxnCursor failed."} :
         IF outcome = "ok"
         THEN /\ dbTxn' = NewTxn
              /\ clearPc' = "tx"
              /\ clearCursor' = SortIds(dbTx)
         ELSE /\ dbTxn' = NoTxn
              /\ clearPc' = IF outcome = "TxnBegin failed." THEN "nobegin" ELSE "failed"
              /\ UNCHANGED clearCursor
    /\ UNCHANGED <<dbTx, dbRtx, mapWallet, clearCount, txnAbortCalls, clearRest>>

\* one iteration of the loop over the "tx" keys
ClearTxStep ==
    /\ clearPc = "tx"
    /\ IF clearCursor = <<>>
       THEN /\ IF clearArgs.fRemoveAll
               THEN clearPc' = "rtx" /\ clearCursor' = SortIds(dbRtx)
               ELSE clearPc' = "commit" /\ UNCHANGED clearCursor
            /\ UNCHANGED <<dbTxn, mapWallet, mapRecords, clearCount>>
       ELSE LET hash == Head(clearCursor)
                skip == ClearSkips(clearArgs.fRemoveAll, mapWallet[hash])
            IN IF skip
               THEN /\ clearCursor' = Tail(clearCursor)
                    /\ UNCHANGED <<clearPc, dbTxn, mapWallet, mapRecords, clearCount>>
               ELSE /\ mapWallet' = UnloadWallet(mapWallet, hash)
                    /\ mapRecords' = UnloadRecords(mapRecords, hash)
                    /\ \E delOk \in BOOLEAN :
                         IF delOk
                         THEN /\ dbTxn' = [dbTxn EXCEPT !.delTx = @ \cup {hash}]
                              /\ clearCount' = [clearCount EXCEPT !.nRemoved = @ + 1]
                              /\ clearCursor' = Tail(clearCursor)
                              /\ UNCHANGED clearPc
                         ELSE /\ clearPc' = "failed"
                              /\ dbTxn' = NoTxn
                              /\ UNCHANGED <<clearCursor, clearCount>>
    /\ UNCHANGED <<dbTx, dbRtx, clearArgs, clearSnap, txnAbortCalls, walletRest>>

\* one iteration of the loop over the "rtx" keys
ClearRtxStep ==
    /\ clearPc = "rtx"
    /\ IF clearCursor = <<>>
       THEN /\ clearPc' = "commit"
            /\ UNCHANGED <<clearCursor, dbTxn, mapWallet, mapRecords, clearCount>>
       ELSE LET hash == Head(clearCursor)
            IN /\ mapWallet' = UnloadWallet(mapWallet, hash)
               /\ mapRecords' = UnloadRecords(mapRecords, hash)
               /\ \E delOk \in BOOLEAN :
                    IF delOk
                    THEN /\ dbTxn' = [dbTxn EXCEPT !.delRtx = @ \cup {hash}]
                         /\ clearCount' = [clearCount EXCEPT !.nRecordsRemoved = @ + 1]
                         /\ clearCursor' = Tail(clearCursor)
                         /\ UNCHANGED clearPc
                    ELSE /\ clearPc' = "failed"
                         /\ dbTxn' = NoTxn
                         /\ UNCHANGED <<clearCursor, clearCount>>
    /\ UNCHANGED <<dbTx, dbRtx, clearArgs, clearSnap, txnAbortCalls, walletRest>>

\* pcursor->close() and TxnCommit
ClearCommit ==
    /\ clearPc = "commit"
    /\ \E ok \in BOOLEAN :
         IF ok
         THEN /\ dbTx' = dbTx \ dbTxn.delTx
              /\ dbRtx' = dbRtx \ dbTxn.delRtx
              /\ clearPc' = "done"
         ELSE /\ clearPc' = "failed"
              /\ UNCHANGED <<dbTx, dbRtx>>
    /\ dbTxn' = NoTxn
    /\ UNCHANGED <<mapWallet, clearArgs, clearCursor, clearCount, clearSnap,
                   txnAbortCalls, clearRest>>
DeriveArgSets == [stealth_v2 : BOOLEAN, fSave : BOOLEAN, num_keys : 1..MaxKeys,
                  hasChain : BOOLEAN]

deriveRest == <<traceVars, sendVars, verifyVars, fundVars, rawVars, listVars, rpcVars, dbTx, dbRtx, mapWallet, clearPc, clearArgs,
                clearCursor, clearCount, clearSnap, txnAbortCalls>>

\* deriverangekeys, stealth branch: TxnBegin and the lookup of the stealth chain
DeriveBegin ==
    /\ derivePc = "idle" /\ clearPc = "idle"
    /\ \E a \in DeriveArgSets, beginOk \in BOOLEAN :
         /\ deriveArgs' = a
         /\ IF ~beginOk
            THEN derivePc' = "nobegin" /\ dbTxn' = NoTxn
            ELSE IF ~a.stealth_v2 /\ ~a.hasChain
            THEN derivePc' = "failed" /\ dbTxn' = NoTxn
            ELSE derivePc' = "open" /\ dbTxn' = NewTxn
    /\ deriveK' = 0
    /\ UNCHANGED <<stealthAddrs, deriveRest>>

\* one iteration of the loop over the keys: derive, and save if asked to
DeriveKey ==
    /\ derivePc = "open"
    /\ IF deriveK = deriveArgs.num_keys
       THEN /\ derivePc' = "commit"
            /\ UNCHANGED <<deriveK, dbTxn, stealthAddrs>>
       ELSE IF deriveArgs.fSave /\ deriveK \notin stealthAddrs.mem
       THEN \E saveOk \in BOOLEAN :
              IF saveOk
              THEN /\ stealthAddrs' = [stealthAddrs EXCEPT !.mem = @ \cup {deriveK}]
                   /\ dbTxn' = [dbTxn EXCEPT !.sx = @ \cup {deriveK}]
                   /\ deriveK' = deriveK + 1
                   /\ UNCHANGED derivePc
              ELSE /\ derivePc' = "failed"
                   /\ dbTxn' = NoTxn
                   /\ UNCHANGED <<deriveK, stealthAddrs>>
       ELSE /\ deriveK' = deriveK + 1
            /\ UNCHANGED <<derivePc, dbTxn, stealthAddrs>>
    /\ UNCHANGED <<deriveArgs, deriveRest>>

\* TxnCommit of deriverangekeys
DeriveCommit ==
    /\ derivePc = "commit"
    /\ \E ok \in BOOLEAN :
         IF ok
         THEN /\ stealthAddrs' = [stealthAddrs EXCEPT !.db = @ \cup dbTxn.sx]
              /\ derivePc' = "done"
         ELSE /\ derivePc' = "failed"
              /\ UNCHANGED stealthAddrs
    /\ dbTxn' = NoTxn
    /\ UNCHANGED <<deriveArgs, deriveK, deriveRest>>

DbNext ==
    \/ ClearBegin \/ ClearTxStep \/ ClearRtxStep \/ ClearCommit
    \/ DeriveBegin \/ DeriveKey \/ DeriveCommit

\* how the wallet holds a transaction id: not at all, as a wallet
\* transaction (plain, coinstake, abandoned, abandoned coinstake) or as a
\* transaction record
TxKinds == {"none", "tx", "coinstake", "abandoned", "stale", "rtx"}

\* a wallet whose loaded transactions and records match the stored keys,
\* some of the transactions being abandoned coinstakes
InitDb ==
    /\ \E kind \in [TxIds -> TxKinds] :
         LET txs == {t \in TxIds : kind[t] \notin {"none", "rtx"}}
             rtxs == {t \in TxIds : kind[t] = "rtx"}
         IN
         /\ dbTx = txs /\ dbRtx = rtxs
         /\ mapWallet = [t \in TxIds |->
               IF t \in txs
               THEN [present |-> TRUE, coinstake |-> kind[t] \in {"coinstake", "stale"},
                     abandoned |-> kind[t] \in {"abandoned", "stale"}]
               ELSE NoWalletTx]
         /\ mapRecords = [w \in Wallets |-> [t \in TxIds |->
               IF w = DbWallet /\ t \in rtxs
               THEN [present |-> TRUE, inType |-> "plain", in_height |-> TRUE,
                     vin |-> <<>>, vout |-> BlindOutputs]
               ELSE NoRecord]]
    /\ storedTx = [w \in Wallets |-> [t \in TxIds |-> NoStoredTx]]
    /\ spentOuts = [w \in Wallets |-> {}]
    /\ walletLocked = [w \in Wallets |-> FALSE]
    /\ chain = [frozen_blind |-> {}, links |-> {}, blacklist |-> {},
                whitelist |-> {}, keys |-> [w \in Wallets |-> {}]]
    /\ traceArgs = [min_value |-> min_frozen_blinded_value,
                    max_frozen_output_spendable |-> SpendableLimit,
                    extra_txouts |-> {}]
    /\ TraceIdle
    /\ SendIdle
    /\ DbHandlersIdle
    /\ VerifyIdle
    /\ FundIdle
    /\ RawIdle
    /\ ListIdle
    /\ RpcIdle

SpecDb == InitDb /\ [][DbNext]_vars

\* C4: when clearwallettransactions or deriverangekeys fails after TxnBegin
\* succeeded, TxnAbort has been called and the ledger, persisted keys and
\* transactions loaded in memory, is what it was when the call started.
C4_FailureLeavesLedger ==
    /\ clearPc = "failed" => (txnAbortCalls > 0 /\ Ledger = clearSnap)
    /\ derivePc = "failed" => txnAbortCalls > 0

\* C20: a clearwallettransactions call without remove_all, at every point
\* after it started, has removed no wallet transaction other than abandoned
\* coinstakes, neither from memory nor from the stored keys, and no
\* transaction record.
C20_OnlyAbandonedStakesRemoved ==
    (clearPc # "idle" /\ ~clearArgs.fRemoveAll) =>
        /\ \A t \in clearSnap.wallet \ clearSnap.stale : mapWallet[t].present
        /\ clearSnap.dbTx \ clearSnap.stale \subseteq dbTx
        /\ \A t \in clearSnap.records : mapRecords[DbWallet][t].present
        /\ dbRtx = clearSnap.dbRtx

\* a finished call without remove_all removed an abandoned coinstake and
\* kept an abandoned transaction that is no coinstake and a record
C20_Witness ==
    /\ clearPc = "done" /\ ~clearArgs.fRemoveAll
    /\ \E t \in clearSnap.stale : ~mapWallet[t].present /\ t \notin dbTx
    /\ \E t \in TxIds : mapWallet[t].present /\ mapWallet[t].abandoned /\ t \in dbTx
    /\ \E t \in clearSnap.records : mapRecords[DbWallet][t].present /\ t \in dbRtx

\* ------------------------------------------------------------------------
\* Pedersen commitments and verifycommitment
\* ------------------------------------------------------------------------
\* values of one byte, and the byte lengths of a blinding factor, an amount
\* and a serialised commitment, scaled down
ByteBase == 4
BlindLen == 2
AmountLen == 2
CommitLen == 2

\* order of the group, its two generators, and the largest valid amount
CurveOrder == 13
GenG == 1
GenH == 5
MaxMoney == 11

Bytes == 0..(ByteBase - 1)

\* the number a byte string encodes, first byte least significant
RECURSIVE Num(_)
Num(b) == IF b = <<>> THEN 0 ELSE Head(b) + ByteBase * Num(Tail(b))

\* the byte string of length len that encodes x
RECURSIVE Ser(_, _)
Ser(x, len) == IF len = 0 THEN <<>> ELSE <<x % ByteBase>> \o Ser(x \div ByteBase, len - 1)

ByteStrings(len) == [1..len -> Bytes]

\* secp256k1_pedersen_commit: fails on a blinding factor that is not below
\* the group order, else gives blind*G + value*H
CommitOk(blind) == Num(blind) < CurveOrder
Commit(blind, value) == (Num(blind) * GenG + value * GenH) % CurveOrder

\* AmountFromValue: the amount, or -1 when it is out of range
AmountFromValue(a) == IF Num(a) <= MaxMoney THEN Num(a) ELSE -1

\* variant: the comparison of the two commitments always succeeds
CommitmentsEqual_Always(a, b) == Len(a) = Len(b)

\* memcmp of the supplied and the recomputed commitment
CommitmentsEqual(a, b) == a = b

\* the body of verifycommitment: "true" or the error it throws
VerifyCommitment(args) ==
    IF Len(args.commitment) # CommitLen
    THEN "Commitment must be 33 bytes and hex encoded."
    ELSE IF Len(args.blind) # BlindLen
    THEN "Blinding factor must be 32 bytes and hex encoded."
    ELSE IF AmountFromValue(args.amount) < 0
    THEN "Amount out of range"
    ELSE IF ~CommitOk(args.blind)
    THEN "secp256k1_pedersen_commit failed."
    ELSE IF ~CommitmentsEqual(args.commitment,
                              Ser(Commit(args.blind, AmountFromValue(args.amount)), CommitLen))
    THEN "Mismatched commitment"
    ELSE "true"

VerifyArgSets ==
    [commitment : ByteStrings(CommitLen) \cup ByteStrings(CommitLen - 1),
     blind : ByteStrings(BlindLen), amount : ByteStrings(AmountLen)]

\* b differs from a in exactly one byte
OneByteChanged(a, b) ==
    /\ Len(a) = Len(b)
    /\ Cardinality({i \in 1..Len(a) : a[i] # b[i]}) = 1

\* requests that differ from args in one byte of one of the three arguments
Mutations(args) ==
    {m \in VerifyArgSets :
        \/ /\ OneByteChanged(args.commitment, m.commitment)
           /\ m.blind = args.blind /\ m.amount = args.amount
        \/ /\ OneByteChanged(args.blind, m.blind)
           /\ m.commitment = args.commitment /\ m.amount = args.amount
        \/ /\ OneByteChanged(args.amount, m.amount)
           /\ m.commitment = args.commitment /\ m.blind = args.blind}

verifyRest == <<traceVars, sendVars, dbVars, fundVars, rawVars, listVars, rpcVars>>

\* one call of verifycommitment
VerifyCall ==
    /\ verifyResult = "none"
    /\ verifyResult' = VerifyCommitment(verifyArgs)
    /\ UNCHANGED <<verifyArgs, verifyPrev, verifyRest>>

\* the caller changes one byte of an accepted request and asks again
VerifyMutate ==
    /\ verifyResult = "true" /\ verifyPrev = NoVerifyArgs
    /\ \E m \in Mutations(verifyArgs) : verifyArgs' = m
    /\ verifyPrev' = verifyArgs
    /\ verifyResult' = "none"
    /\ UNCHANGED verifyRest

VerifyNext == VerifyCall \/ VerifyMutate

InitVerify ==
    /\ mapRecords = [w \in Wallets |-> [t \in TxIds |-> NoRecord]]
    /\ storedTx = [w \in Wallets |-> [t \in TxIds |-> NoStoredTx]]
    /\ spentOuts = [w \in Wallets |-> {}]
    /\ walletLocked = [w \in Wallets |-> FALSE]
    /\ chain = [frozen_blind |-> {}, links |-> {}, blacklist |-> {},
                whitelist |-> {}, keys |-> [w \in Wallets |-> {}]]
    /\ traceArgs = [min_value |-> min_frozen_blinded_value,
                    max_frozen_output_spendable |-> SpendableLimit,
                    extra_txouts |-> {}]
    /\ TraceIdle
    /\ SendIdle
    /\ DbIdle
    /\ FundIdle
    /\ RawIdle
    /\ ListIdle
    /\ RpcIdle
    /\ verifyArgs \in VerifyArgSets
    /\ verifyResult = "none"
    /\ verifyPrev = NoVerifyArgs

SpecVerify == InitVerify /\ [][VerifyNext]_vars

\* the request carries the commitment computed from its blind and amount
IsCommitmentOf(args) ==
    /\ Len(args.commitment) = CommitLen
    /\ AmountFromValue(args.amount) >= 0 /\ CommitOk(args.blind)
    /\ args.commitment = Ser(Commit(args.blind, AmountFromValue(args.amount)), CommitLen)

\* C7 (as stated): verifycommitment returns true for the commitment computed
\* from the blind and the amount, and returns false once a single byte of the
\* commitment, the blind or the amount is changed.
C7_ReturnsFalseOnMutation ==
    /\ (verifyResult # "none" /\ IsCommitmentOf(verifyArgs)) => verifyResult = "true"
    /\ (verifyResult # "none" /\ verifyPrev # NoVerifyArgs) => verifyResult = "false"

\* C7 (amended): verifycommitment returns true exactly for the commitment
\* computed from the blind and the amount; once a single byte of an accepted
\* request is changed it throws an error, it never returns false.
C7_ThrowsOnMutation ==
    /\ verifyResult # "none" => (verifyResult = "true" <=> IsCommitmentOf(verifyArgs))
    /\ verifyResult # "false"
    /\ (verifyResult # "none" /\ verifyPrev # NoVerifyArgs) =>
           verifyResult \in {"Mismatched commitment", "Amount out of range",
                             "secp256k1_pedersen_commit failed."}

\* a changed request has been answered with the mismatch error
C7_Witness ==
    /\ verifyPrev # NoVerifyArgs /\ IsCommitmentOf(verifyPrev)
    /\ verifyResult = "Mismatched commitment"

\* ------------------------------------------------------------------------
\* fundrawtransactionfrom: validation of the request
\* ------------------------------------------------------------------------
OR_PLACEHOLDER_N == 65535

MaxOuts == 2
FundThread == 1
BlindsThread == 2

NoError == [msg |-> "", output |-> -1]
Error(msg, output) == [msg |-> msg, output |-> output]

Min(S) == CHOOSE x \in S : \A y \in S : x <= y

\* outputs of the submitted transaction: a plain output, or a blinded or
\* anonymous output with its commitment and the blind and amount its range
\* proof rewinds to
StandardTxOut == [type |-> "standard", commitment |-> 0, proofValue |-> 0, proofBlind |-> 0]
BlindedTxOuts ==
    [type : {"blind", "anon"},
     commitment : {Commit(Ser(1, BlindLen), 1), Commit(Ser(1, BlindLen), 2)},
     proofValue : {1},
     proofBlind : {1}]
TxOuts == {StandardTxOut} \cup BlindedTxOuts

\* txout->GetPRangeproof() is set
HasRangeproof(out) == out.type \in {"blind", "anon"}

\* an entry of output_amounts: no entry, a value only, or a nonce that is the
\* right one, a wrong one, or not 32 bytes of hex
EntryKinds == {"absent", "value", "nonce", "wrongnonce", "badnonce"}
CallerValue == 1

\* the loop over the keys of input_amounts, in key order
InputKeyError(req, e) ==
    IF e.key >= Len(req.vin)
    THEN Error("Bad index for input blinding factor.", -1)
    ELSE IF req.vin[e.key + 1].n >= OR_PLACEHOLDER_N
    THEN Error("Input offset too large for output record.", -1)
    ELSE IF ~e.hasValue
    THEN Error("Missing 'value' for input.", -1)
    ELSE NoError

InputsError(req) ==
    LET bad == {e \in req.inputAmounts : InputKeyError(req, e).msg # ""}
    IN IF bad = {} THEN NoError
       ELSE InputKeyError(req, CHOOSE e \in bad : \A f \in bad : e.key <= f.key)

\* the loop over the keys of output_amounts, in key order
OutputKeys(req) == {n \in 0..(MaxOuts - 1) : req.outputAmounts[n + 1] # "absent"}

OutputKeyError(req, n) ==
    LET e == req.outputAmounts[n + 1] IN
    IF n >= Len(req.vpout)
    THEN Error("Bad index for output blinding factor.", -1)
    ELSE IF e \in {"nonce", "wrongnonce", "badnonce"} /\ HasRangeproof(req.vpout[n + 1])
    THEN IF e = "badnonce" THEN Error("Nonce must be 32 bytes and hex encoded.", -1)
         ELSE IF e = "wrongnonce" THEN Error("rangeproof_rewind failed, output %d.", n)
         ELSE NoError
    ELSE IF HasRangeproof(req.vpout[n + 1])
    THEN Error("Missing nonce for output %d.", n)
    ELSE NoError

OutputKeysError(req) ==
    LET bad == {n \in OutputKeys(req) : OutputKeyError(req, n).msg # ""}
    IN IF bad = {} THEN NoError ELSE OutputKeyError(req, Min(bad))

\* mOutputAmounts and mOutputBlinds after the loop over the keys
HasOutputAmount(req, i) == i \in OutputKeys(req)
HasOutputBlind(req, i) ==
    req.outputAmounts[i + 1] = "nonce" /\ HasRangeproof(req.vpout[i + 1])
OutputAmount(req, i) ==
    IF HasOutputBlind(req, i) THEN req.vpout[i + 1].proofValue
    ELSE IF req.outputAmounts[i + 1] = "value" THEN CallerValue
    ELSE 0
OutputBlind(req, i) == Ser(req.vpout[i + 1].proofBlind, BlindLen)

\* the commitment of output i is the one recomputed from its amount and blind
CommitmentMatches(req, i) ==
    CommitmentsEqual(Ser(req.vpout[i + 1].commitment, CommitLen),
                     Ser(Commit(OutputBlind(req, i), OutputAmount(req, i)), CommitLen))

\* variant: the check of output i never reports a mismatch
CommitmentError_Skip(req, i) ==
    IF ~HasOutputAmount(req, i) THEN Error("Missing amount for blinded output %d.", i)
    ELSE IF ~HasOutputBlind(req, i)
    THEN Error("Missing blinding factor for blinded output %d.", i)
    ELSE NoError

\* "Check commitment matches", for a blinded or anonymous output i
CommitmentError(req, i) ==
    IF ~HasOutputAmount(req, i) THEN Error("Missing amount for blinded output %d.", i)
    ELSE IF ~HasOutputBlind(req, i)
    THEN Error("Missing blinding factor for blinded output %d.", i)
    ELSE IF ~CommitOk(OutputBlind(req, i))
    THEN Error("secp256k1_pedersen_commit failed, output %d.", i)
    ELSE IF ~CommitmentMatches(req, i)
    THEN Error("Bad blinding factor, output %d.", i)
    ELSE NoError

\* the loop over tx.vpout
CommitmentsError(req) ==
    LET bad == {i \in 0..(Len(req.vpout) - 1) :
                   /\ HasRangeproof(req.vpout[i + 1])
                   /\ CommitmentError(req, i).msg # ""}
    IN IF bad = {} THEN NoError ELSE CommitmentError(req, Min(bad))

\* everything fundrawtransactionfrom checks before it takes the wallet lock
FundValidate(req) ==
    IF Len(req.vpout) = 0 THEN Error("TX must have at least one output", -1)
    ELSE IF InputsError(req).msg # "" THEN InputsError(req)
    ELSE IF OutputKeysError(req).msg # "" THEN OutputKeysError(req)
    ELSE CommitmentsError(req)

FundRequests ==
    [vin : {<<>>, <<[hash |-> 1, n |-> 0]>>, <<[hash |-> 1, n |-> OR_PLACEHOLDER_N]>>},
     inputAmounts : {{}, {[key |-> 0, hasValue |-> TRUE]}, {[key |-> 0, hasValue |-> FALSE]}},
     vpout : UNION {[1..k -> TxOuts] : k \in 0..MaxOuts},
     outputAmounts : [1..MaxOuts -> EntryKinds],
     lockUnspents : BOOLEAN,
     optInputs : {{}, {[hash |-> 1, n |-> NumOut - 1]}},
     optData : {{}}]

\* requests whose options.inputs may carry override data (a value, a type, a
\* blind, ...) and may name any previous-output index
DataIndexes == {NumOut - 1, OR_PLACEHOLDER_N, OR_PLACEHOLDER_N + 1}
FundDataRequests ==
    {r \in [vin : {<<>>, <<[hash |-> 1, n |-> 0]>>, <<[hash |-> 1, n |-> OR_PLACEHOLDER_N]>>},
            inputAmounts : {{}, {[key |-> 0, hasValue |-> TRUE]}},
            vpout : {<<StandardTxOut>>},
            outputAmounts : {[i \in 1..MaxOuts |-> "absent"]},
            lockUnspents : BOOLEAN,
            optInputs : {{}} \cup {{[hash |-> 1, n |-> n]} : n \in DataIndexes},
            optData : {{}} \cup {{[hash |-> 1, n |-> n]} : n \in DataIndexes}] :
        r.optData \subseteq r.optInputs}

\* ------------------------------------------------------------------------
\* fundrawtransactionfrom and transactionblinds: the handlers
\* ------------------------------------------------------------------------
fundRest == <<traceVars, sendVars, dbVars, verifyVars, rawVars, listVars, rpcVars>>

\* the keys of coinControl.m_inputData: the options.inputs that carry override
\* data, stored by ParseCoinControlOptions, and the inputs named by a key of
\* input_amounts
InputDataKeys(req) ==
    req.optData \cup {req.vin[e.key + 1] : e \in req.inputAmounts}

\* COutputRecord::n
Uint16(x) == x % 65536

\* the records built from coinControl.m_inputData
TempRecordsOf(req) ==
    {[hash |-> op.hash, n |-> Uint16(op.n)] : op \in InputDataKeys(req)}

\* coinControl.IsSelected: the outpoints of options.inputs, inserted by
\* ParseCoinControlOptions, and those of tx.vin, inserted by coinControl.Select
IsSelected(req, op) == op \in req.optInputs \cup SeqToSet(req.vin)

\* inputs of wtx.tx->vin that are not inputs of the submitted transaction:
\* the selected outpoints that tx.vin does not hold, and what AddXInputs adds
FundSelections(req) ==
    {(req.optInputs \ SeqToSet(req.vin)) \cup S :
        S \in {T \in SUBSET {op \in Unspent : ~IsSelected(req, op)} :
                  /\ Cardinality(T) <= MaxVin
                  /\ T # {} \/ req.vin # <<>> \/ req.optInputs # {}}}

\* decode the request and check it, up to coinControl.Select
FundBeginOf(Requests) ==
    /\ fundPc = "idle"
    /\ \E req \in Requests :
         /\ fundReq' = req
         /\ fundVin' = req.vin
         /\ LET e == FundValidate(req) IN
            IF e.msg # ""
            THEN /\ fundPc' = "failed"
                 /\ fundResult' = [kind |-> "error", msg |-> e.msg, output |-> e.output]
            ELSE /\ fundPc' = "parsed"
                 /\ UNCHANGED fundResult
    /\ UNCHANGED <<cs_wallet, mapTempRecords, lockedCoins, fundSel, blindsPc,
                   blindsResult, lastAccess, fundRest>>

FundBegin == FundBeginOf(FundRequests)

\* the same, for a request with override data in options.inputs
FundBeginData == FundBeginOf(FundDataRequests)

\* LOCK(cs_wallet), ClearMapTempRecords and the insertion of the temporary records
FundLock ==
    /\ fundPc = "parsed" /\ cs_wallet = 0
    /\ cs_wallet' = FundThread
    /\ mapTempRecords' = TempRecordsOf(fundReq)
    /\ lastAccess' = [thread |-> FundThread, map |-> "mapTempRecords", locked |-> TRUE]
    /\ fundPc' = "locked"
    /\ UNCHANGED <<lockedCoins, fundReq, fundSel, fundVin, fundResult, blindsPc,
                   blindsResult, fundRest>>

\* AddXInputs, ClearMapTempRecords and the end of the locked block
FundSelect ==
    /\ fundPc = "locked"
    /\ \/ /\ \E S \in FundSelections(fundReq) : fundSel' = S
          /\ mapTempRecords' = {}
          /\ fundPc' = "selected"
          /\ UNCHANGED fundResult
       \/ /\ fundPc' = "failed"
          /\ fundResult' = [kind |-> "error", msg |-> "AddInputs failed", output |-> -1]
          /\ UNCHANGED <<fundSel, mapTempRecords>>
    /\ cs_wallet' = 0
    /\ lastAccess' = [thread |-> FundThread, map |-> "mapRecords",
                      locked |-> cs_wallet = FundThread]
    /\ UNCHANGED <<lockedCoins, fundReq, fundVin, blindsPc, blindsResult, fundRest>>

\* append the inputs that were not preselected, lock the coins if asked to
FundAppend ==
    /\ fundPc = "selected"
    /\ fundReq.lockUnspents => cs_wallet = 0
    /\ fundVin' = fundReq.vin \o SortOps({op \in fundSel : ~IsSelected(fundReq, op)})
    /\ lockedCoins' = IF fundReq.lockUnspents
                      THEN lockedCoins \cup SeqToSet(fundReq.vin) \cup fundSel
                      ELSE lockedCoins
    /\ fundPc' = "appended"
    /\ UNCHANGED <<cs_wallet, mapTempRecords, fundReq, fundSel, fundResult, blindsPc,
                   blindsResult, lastAccess, fundRest>>

\* the fee limit, mapTempRecords.clear() and the reply
FundFinish ==
    /\ fundPc = "appended"
    /\ \E feeOk \in BOOLEAN :
         IF feeOk
         THEN /\ mapTempRecords' = {}
              /\ lastAccess' = [thread |-> FundThread, map |-> "mapTempRecords",
                                locked |-> cs_wallet = FundThread]
              /\ fundResult' = [kind |-> "ok", msg |-> "", output |-> -1]
              /\ fundPc' = "done"
         ELSE /\ fundResult' = [kind |-> "error", msg |-> "Fee exceeds maximum", output |-> -1]
              /\ fundPc' = "failed"
              /\ UNCHANGED <<mapTempRecords, lastAccess>>
    /\ UNCHANGED <<cs_wallet, lockedCoins, fundReq, fundSel, fundVin, blindsPc,
                   blindsResult, fundRest>>

\* transactionblinds: look the record up, read the stored transaction
TransactionBlinds ==
    /\ blindsPc = "idle"
    /\ \E hash \in TxIds :
         blindsResult' =
            IF ~mapRecords[SendWallet][hash].present
            THEN [kind |-> "error", msg |-> "Invalid or non-wallet transaction id", output |-> -1]
            ELSE IF ~storedTx[SendWallet][hash].present
            THEN [kind |-> "error", msg |-> "No stored data found for txn", output |-> -1]
            ELSE [kind |-> "ok", msg |-> "", output |-> -1]
    /\ lastAccess' = [thread |-> BlindsThread, map |-> "mapRecords",
                      locked |-> cs_wallet = BlindsThread]
    /\ blindsPc' = "done"
    /\ UNCHANGED <<cs_wallet, mapTempRecords, lockedCoins, fundPc, fundReq, fundSel,
                   fundVin, fundResult, fundRest>>

\* one call of fundrawtransactionfrom
FundCall == FundBegin \/ FundLock \/ FundSelect \/ FundAppend \/ FundFinish

\* the call next to a call of transactionblinds on another thread
FundNext == FundCall \/ TransactionBlinds

\* a wallet holding the unspent outputs of transaction 1 and the spent
\* outputs of transaction 2, with the stored data of transaction 1 only
InitFund ==
    /\ mapRecords = [w \in Wallets |-> [t \in TxIds |->
          IF w = SendWallet /\ t <= 2
          THEN [present |-> TRUE, inType |-> "plain", in_height |-> TRUE,
                vin |-> <<>>, vout |-> BlindOutputs]
          ELSE NoRecord]]
    /\ storedTx = [w \in Wallets |-> [t \in TxIds |->
          IF w = SendWallet /\ t = 1
          THEN [present |-> TRUE, blinds |-> OutIdx] ELSE NoStoredTx]]
    /\ spentOuts = [w \in Wallets |->
          IF w = SendWallet THEN {op \in Outpoints : op.hash # 1} ELSE {}]
    /\ walletLocked = [w \in Wallets |-> FALSE]
    /\ chain = [frozen_blind |-> {}, links |-> {}, blacklist |-> {},
                whitelist |-> {}, keys |-> [w \in Wallets |-> {}]]
    /\ traceArgs = [min_value |-> min_frozen_blinded_value,
                    max_frozen_output_spendable |-> SpendableLimit,
                    extra_txouts |-> {}]
    /\ TraceIdle
    /\ SendIdle
    /\ DbIdle
    /\ VerifyIdle
    /\ FundIdle
    /\ RawIdle
    /\ ListIdle
    /\ RpcIdle

SpecFund == InitFund /\ [][FundNext]_vars

SpecFundCall == InitFund /\ [][FundCall]_vars

\* one call with a request that may carry override data in options.inputs
FundDataNext == FundBeginData \/ FundLock \/ FundSelect \/ FundAppend \/ FundFinish

SpecFundData == InitFund /\ [][FundDataNext]_vars

\* the inputs a request gives override data for, in input_amounts or in
\* options.inputs
OverriddenInputs(req) ==
    req.optData \cup {req.vin[e.key + 1] : e \in {f \in req.inputAmounts : f.key < Len(req.vin)}}

\* C22: fundrawtransactionfrom creates no temporary output record whose index
\* is the placeholder 0xFFFF or differs from the index of the previous output
\* it stands for: a request with override data, from input_amounts or from
\* options.inputs, for an input whose previous-output index is 0xFFFF or
\* larger is rejected with "Input offset too large for output record.".
C22_RecordIndexIsPrevout ==
    /\ \A r \in mapTempRecords : r.n # OR_PLACEHOLDER_N
    /\ fundPc = "locked" => mapTempRecords = OverriddenInputs(fundReq)
    /\ (fundPc # "idle" /\ \E op \in OverriddenInputs(fundReq) : op.n >= OR_PLACEHOLDER_N) =>
          /\ fundPc = "failed"
          /\ fundResult.msg = "Input offset too large for output record."

\* C23: when fundrawtransactionfrom ends with an error, the call has locked no
\* unspent output and mapTempRecords is empty again.
C23_ErrorLeavesNothing ==
    fundPc = "failed" => lockedCoins = {} /\ mapTempRecords = {}

\* C5: every read or change of mapRecords or mapTempRecords by an RPC handler
\* is made while the handler's thread holds cs_wallet.
C5_AccessUnderLock == lastAccess.thread # 0 => lastAccess.locked

\* blinded or anonymous outputs of the request whose commitment differs from
\* the one recomputed from the amount and blind taken for that output
Mismatched(req) ==
    {i \in 0..(Len(req.vpout) - 1) :
        /\ HasRangeproof(req.vpout[i + 1])
        /\ HasOutputAmount(req, i) /\ HasOutputBlind(req, i)
        /\ CommitOk(OutputBlind(req, i))
        /\ Ser(req.vpout[i + 1].commitment, CommitLen)
             # Ser(Commit(OutputBlind(req, i), OutputAmount(req, i)), CommitLen)}

C12_FundingInputsReturned ==
    fundPc \in {"appended", "done"} =>
        /\ Len(fundVin) >= Len(fundReq.vin)
        /\ SubSeq(fundVin, 1, Len(fundReq.vin)) = fundReq.vin
        /\ SeqToSet(fundVin) = SeqToSet(fundReq.vin) \cup fundSel

\* ------------------------------------------------------------------------
\* createrawparttransaction: the loop that builds the outputs
\* ------------------------------------------------------------------------
MaxRawOutputs == 3

\* numbers of recipients of the requests: a few, and one more than the
\* placeholder index
RawSizes == 1..MaxRawOutputs \cup {OR_PLACEHOLDER_N + 1}

rawRest == <<traceVars, sendVars, dbVars, verifyVars, fundVars, listVars, rpcVars>>

\* parse the outputs into vecSend, LOCK(cs_wallet), ExpandTempRecipients
RawBegin ==
    /\ rawPc = "idle"
    /\ \E size \in RawSizes, ok \in BOOLEAN :
         /\ rawReq' = size
         /\ rawPc' = IF ok THEN "outputs" ELSE "failed"
    /\ UNCHANGED <<rawVpoutSize, rawLastN, rawDistinct, rawRest>>

\* k iterations of the loop over vecSend, one or all that remain: each sets
\* r.n = rawTx.vpout.size() and appends the output; CreateOutput,
\* CheckOutputValue or AddCTData may fail in the iteration that follows them
RawOutputs ==
    /\ rawPc = "outputs"
    /\ IF rawVpoutSize = rawReq
       THEN /\ rawPc' = "done"
            /\ UNCHANGED <<rawVpoutSize, rawLastN, rawDistinct>>
       ELSE \E k \in {1, rawReq - rawVpoutSize}, ok \in BOOLEAN :
              /\ rawLastN' = rawVpoutSize + k - 1
              /\ rawVpoutSize' = rawVpoutSize + k
              /\ rawDistinct' = (rawDistinct /\ rawVpoutSize > rawLastN)
              /\ rawPc' = IF ok THEN "outputs" ELSE "failed"
    /\ UNCHANGED <<rawReq, rawRest>>

RawNext == RawBegin \/ RawOutputs

InitRaw ==
    /\ mapRecords = [w \in Wallets |-> [t \in TxIds |-> NoRecord]]
    /\ storedTx = [w \in Wallets |-> [t \in TxIds |-> NoStoredTx]]
    /\ spentOuts = [w \in Wallets |-> {}]
    /\ walletLocked = [w \in Wallets |-> FALSE]
    /\ chain = [frozen_blind |-> {}, links |-> {}, blacklist |-> {},
                whitelist |-> {}, keys |-> [w \in Wallets |-> {}]]
    /\ traceArgs = [min_value |-> min_frozen_blinded_value,
                    max_frozen_output_spendable |-> SpendableLimit,
                    extra_txouts |-> {}]
    /\ TraceIdle
    /\ NonTraceIdle

SpecRaw == InitRaw /\ [][RawNext]_vars

\* C6: every output built by createrawparttransaction gets an index below
\* 0xFFFF, and no two outputs get the same index.
C6_IndexBelowPlaceholder == rawLastN < OR_PLACEHOLDER_N /\ rawDistinct

\* ------------------------------------------------------------------------
\* debugwallet list_frozen_outputs
\* ------------------------------------------------------------------------
ListWallet == 1

\* an output value below min_frozen_blinded_value
DustValue == min_frozen_blinded_value - 1

\* the body of the loop over rtx.vout: is output r of txid listed at all
FrozenListed(w, txid, r, n) ==
    /\ mapRecords[w][txid].in_height
    /\ r.nType \in {"anon", "blind"}
    /\ r.owned
    /\ r.nValue >= min_frozen_blinded_value
    /\ ~IsSpent(w, txid, n)

\* is_spendable without the comparison against max_frozen_output_spendable
FrozenSpendable_NoLimit(w, txid, r, n, max_spendable) ==
    LET op == [hash |-> txid, n |-> n] IN
    IF r.nType = "anon"
    THEN ~(\/ ~storedTx[w][txid].present
           \/ op \notin chain.links
           \/ AnonIndex(op) \in chain.blacklist)
    ELSE TRUE

\* is_spendable of a listed output
FrozenSpendable(w, txid, r, n, max_spendable) ==
    LET op == [hash |-> txid, n |-> n] IN
    IF r.nType = "anon"
    THEN ~(\/ ~storedTx[w][txid].present
           \/ op \notin chain.links
           \/ AnonIndex(op) \in chain.blacklist
           \/ (AnonIndex(op) \notin chain.whitelist /\ r.nValue > max_spendable))
    ELSE ~(txid \in chain.frozen_blind /\ r.nValue > max_spendable)

\* anon_index as left by the short-circuit condition
FrozenAnonIndex(w, op) ==
    IF storedTx[w][op.hash].present /\ op \in chain.links THEN AnonIndex(op) ELSE 0

\* the reply entry of a listed output
FrozenEntry(w, op, max_spendable) ==
    LET r == mapRecords[w][op.hash].vout[op.n] IN
    [type |-> r.nType,
     spendable |-> FrozenSpendable(w, op.hash, r, op.n, max_spendable),
     txid |-> op.hash, n |-> op.n, amount |-> r.nValue,
     anon_index |-> IF r.nType = "anon" THEN FrozenAnonIndex(w, op) ELSE -1,
     blacklisted |-> r.nType = "anon" /\ FrozenAnonIndex(w, op) \in chain.blacklist]

FrozenEntries(w, max_spendable) ==
    {FrozenEntry(w, op, max_spendable) :
        op \in {o \in Outpoints :
                  /\ mapRecords[w][o.hash].present
                  /\ mapRecords[w][o.hash].vout[o.n].present
                  /\ FrozenListed(w, o.hash, mapRecords[w][o.hash].vout[o.n], o.n)}}

\* std::sort by amount, largest first; the order of equal amounts is open
SortedByAmount(S) ==
    {q \in [1..Cardinality(S) -> S] :
        /\ \A i, j \in 1..Cardinality(S) : i # j => q[i] # q[j]
        /\ \A i, j \in 1..Cardinality(S) : i < j => q[i].amount >= q[j].amount}

RECURSIVE SumAmounts(_)
SumAmounts(S) ==
    IF S = {} THEN 0
    ELSE LET e == CHOOSE x \in S : TRUE IN e.amount + SumAmounts(S \ {e})

frozenRest == <<traceVars, sendVars, dbVars, verifyVars, fundVars, rawVars, rpcVars,
                listPc, listArgs, vecOutputs, listResult, txDepth, outAddress>>

\* debugwallet {list_frozen_outputs: true}, under cs_wallet
ListFrozenOutputs ==
    /\ frozenPc = "idle"
    /\ \E max_spendable \in {SpendableLimit, HighValue} :
         LET entries == FrozenEntries(ListWallet, max_spendable)
             yes == {e \in entries : e.spendable}
             no == entries \ yes
         IN /\ frozenArgs' = [max_frozen_output_spendable |-> max_spendable]
            /\ \E q \in SortedByAmount(entries) : frozenResult' = q
            /\ frozenTotals' = [num_spendable |-> Cardinality(yes),
                                total_spendable |-> SumAmounts(yes),
                                num_unspendable |-> Cardinality(no),
                                total_unspendable |-> SumAmounts(no)]
    /\ frozenPc' = "done"
    /\ UNCHANGED frozenRest

FrozenNext == ListFrozenOutputs

\* a wallet holding transaction 1 with blinded and anonymous outputs of
\* values around the limits, spent or not, in a chain view that may freeze,
\* whitelist or blacklist them
InitFrozen ==
    /\ \E types \in [OutIdx -> {"blind", "anon"}],
          values \in [OutIdx -> {DustValue, LowValue, HighValue}],
          inHeight \in BOOLEAN :
         mapRecords = [w \in Wallets |-> [t \in TxIds |->
            IF w = ListWallet /\ t = 1
            THEN [present |-> TRUE, inType |-> "plain", in_height |-> inHeight,
                  vin |-> <<>>,
                  vout |-> [n \in OutIdx |->
                     [present |-> TRUE, nType |-> types[n], owned |-> TRUE,
                      nValue |-> values[n]]]]
            ELSE NoRecord]]
    /\ \E stored \in BOOLEAN :
         storedTx = [w \in Wallets |-> [t \in TxIds |->
            IF w = ListWallet /\ t = 1 /\ stored
            THEN [present |-> TRUE, blinds |-> OutIdx] ELSE NoStoredTx]]
    /\ \E spent \in {S \in SUBSET {op \in Outpoints : op.hash = 1} : Cardinality(S) <= 1} :
         spentOuts = [w \in Wallets |-> IF w = ListWallet THEN spent ELSE {}]
    /\ walletLocked = [w \in Wallets |-> FALSE]
    /\ \E frozen \in SUBSET {1}, linked \in BOOLEAN,
          black \in {S \in SUBSET {op \in Outpoints : op.hash = 1} : Cardinality(S) <= 1},
          white \in {S \in SUBSET {op \in Outpoints : op.hash = 1} : Cardinality(S) <= 1} :
         chain = [frozen_blind |-> frozen,
                  links |-> IF linked THEN Outpoints ELSE {},
                  blacklist |-> {AnonIndex(op) : op \in black},
                  whitelist |-> {AnonIndex(op) : op \in white},
                  keys |-> [w \in Wallets |-> {}]]
    /\ traceArgs = [min_value |-> min_frozen_blinded_value,
                    max_frozen_output_spendable |-> SpendableLimit,
                    extra_txouts |-> {}]
    /\ TraceIdle
    /\ NonTraceIdle

SpecFrozen == InitFrozen /\ [][FrozenNext]_vars

\* the list and a trace over the same wallet
FrozenTraceNext == ListFrozenOutputs \/ TraceNext

\* a wallet holding transaction 1, with blinded and anonymous outputs of
\* values around the limit, which spends output 0 of its transaction 2
InitFrozenTrace ==
    /\ \E types \in [OutIdx -> {"blind", "anon"}],
          values \in [OutIdx -> {LowValue, HighValue}] :
         mapRecords = [w \in Wallets |-> [t \in TxIds |->
            IF w = ListWallet /\ t = 1
            THEN [present |-> TRUE, inType |-> "blind", in_height |-> TRUE,
                  vin |-> <<[hash |-> 2, n |-> 0]>>,
                  vout |-> [n \in OutIdx |->
                     [present |-> TRUE, nType |-> types[n], owned |-> TRUE,
                      nValue |-> values[n]]]]
            ELSE IF w = ListWallet /\ t = 2
            THEN [present |-> TRUE, inType |-> "plain", in_height |-> TRUE,
                  vin |-> <<>>, vout |-> BlindOutputs]
            ELSE NoRecord]]
    /\ \E stored \in BOOLEAN :
         storedTx = [w \in Wallets |-> [t \in TxIds |->
            IF w = ListWallet /\ t \in {1, 2} /\ stored
            THEN [present |-> TRUE, blinds |-> OutIdx] ELSE NoStoredTx]]
    /\ spentOuts = [w \in Wallets |->
          IF w = ListWallet THEN {[hash |-> 2, n |-> 0]} ELSE {}]
    /\ walletLocked = [w \in Wallets |-> FALSE]
    /\ \E frozen \in SUBSET {1}, linked \in BOOLEAN,
          black \in {S \in SUBSET {op \in Outpoints : op.hash = 1} : Cardinality(S) <= 1} :
         chain = [frozen_blind |-> frozen,
                  links |-> IF linked THEN Outpoints ELSE {},
                  blacklist |-> {AnonIndex(op) : op \in black},
                  whitelist |-> {},
                  keys |-> [w \in Wallets |-> {}]]
    /\ traceArgs = [min_value |-> min_frozen_blinded_value,
                    max_frozen_output_spendable |-> SpendableLimit,
                    extra_txouts |-> {}]
    /\ TraceIdle
    /\ NonTraceIdle

SpecFrozenTrace == InitFrozenTrace /\ [][FrozenTraceNext]_vars

\* the outputs list_frozen_outputs has reported as not spendable
ListedUnspendable ==
    {[hash |-> frozenResult[i].txid, n |-> frozenResult[i].n] :
        i \in {j \in 1..Len(frozenResult) : ~frozenResult[j].spendable}}

\* C28: over the same wallet state, with the same max_frozen_output_spendable
\* and no extra outputs forced, the outputs trace_frozen_outputs traces at top
\* level are exactly those list_frozen_outputs reports as not spendable.
C28_TraceTopLevelIsListed ==
    (/\ frozenPc = "done"
     /\ tracePhase \notin {"idle", "scan", "failed"}
     /\ traceArgs.extra_txouts = {}
     /\ frozenArgs.max_frozen_output_spendable = traceArgs.max_frozen_output_spendable) =>
        top_level = ListedUnspendable

\* the entry of outpoint (txid, n) in the reply, if there is one
FrozenReply(txid, n) ==
    {e \in SeqToSet(frozenResult) : e.txid = txid /\ e.n = n}

\* outputs n and m of transaction 1 are the two outputs of the scenario: owned,
\* unspent, frozen in the same transaction, n above the limit, m below it,
\* neither whitelisted
FrozenPair(n, m) ==
    LET rtx == mapRecords[ListWallet][1]
        max_spendable == frozenArgs.max_frozen_output_spendable
    IN /\ rtx.present /\ rtx.in_height /\ 1 \in chain.frozen_blind
       /\ n # m
       /\ rtx.vout[n].owned /\ rtx.vout[m].owned
       /\ ~IsSpent(ListWallet, 1, n) /\ ~IsSpent(ListWallet, 1, m)
       /\ rtx.vout[n].nValue > max_spendable /\ rtx.vout[m].nValue < max_spendable
       /\ AnonIndex([hash |-> 1, n |-> n]) \notin chain.whitelist
       /\ AnonIndex([hash |-> 1, n |-> m]) \notin chain.whitelist

\* the low-value output is at least min_frozen_blinded_value and, when it is
\* anonymous, its stored transaction and index link can be read and its
\* index is not blacklisted
FrozenLowReadable(m) ==
    LET r == mapRecords[ListWallet][1].vout[m]
        op == [hash |-> 1, n |-> m]
    IN /\ r.nValue >= min_frozen_blinded_value
       /\ r.nType = "anon" => /\ storedTx[ListWallet][1].present
                              /\ op \in chain.links
                              /\ AnonIndex(op) \notin chain.blacklist

\* C9 (as stated): of two owned unspent outputs frozen in one transaction,
\* one above and one below max_frozen_output_spendable, neither whitelisted,
\* list_frozen_outputs reports the lower one spendable and the higher one not.
C9_LowSpendableHighNot ==
    frozenPc = "done" =>
        \A n, m \in OutIdx : FrozenPair(n, m) =>
            /\ \E e \in FrozenReply(1, m) : e.spendable
            /\ \E e \in FrozenReply(1, n) : ~e.spendable

\* C9 (amended): the same, when the lower value is at least
\* min_frozen_blinded_value and the lower output, if anonymous, has a readable
\* stored transaction and index link and is not blacklisted; each of the two
\* outputs is reported exactly once.
C9_LowSpendableIfListed ==
    frozenPc = "done" =>
        \A n, m \in OutIdx : (FrozenPair(n, m) /\ FrozenLowReadable(m)) =>
            /\ \E e \in FrozenReply(1, m) : e.spendable
            /\ \E e \in FrozenReply(1, n) : ~e.spendable
            /\ Cardinality(FrozenReply(1, m)) = 1 /\ Cardinality(FrozenReply(1, n)) = 1

\* the scenario has been listed: an anonymous low-value output reported
\* spendable next to a blinded high-value output reported not spendable
C9_Witness ==
    /\ frozenPc = "done"
    /\ \E n, m \in OutIdx :
         /\ FrozenPair(n, m) /\ FrozenLowReadable(m)
         /\ mapRecords[ListWallet][1].vout[m].nType = "anon"
         /\ mapRecords[ListWallet][1].vout[n].nType = "blind"
         /\ \E e \in FrozenReply(1, m) : e.spendable
         /\ \E e \in FrozenReply(1, n) : ~e.spendable

\* ------------------------------------------------------------------------
\* listunspentanon and listunspentblind
\* ------------------------------------------------------------------------
ListTxs == 1..NumListTx
Depths == 0..MaxDepth
Addresses == {"unknown", "sx1", "sx2"}

\* the wallet's unspent outputs of the type the handler lists
ListCandidates(kind) ==
    {op \in Outpoints :
        /\ mapRecords[ListWallet][op.hash].present
        /\ mapRecords[ListWallet][op.hash].vout[op.n].present
        /\ mapRecords[ListWallet][op.hash].vout[op.n].nType = kind
        /\ ~IsSpent(ListWallet, op.hash, op.n)}

COutputR(op) == [txhash |-> op.hash, rtx |-> mapRecords[ListWallet][op.hash],
                 i |-> op.n, nDepth |-> txDepth[op.hash]]

\* depth-qualified: m_min_depth <= depth <= m_max_depth
DepthQualified(nDepth, m_min_depth, m_max_depth) ==
    m_min_depth <= nDepth /\ nDepth <= m_max_depth

\* AvailableAnonCoins / AvailableBlindedCoins: every depth-qualified candidate,
\* and possibly candidates the collector did not filter by depth
AvailableCoins(kind, m_min_depth, m_max_depth) ==
    {S \in SUBSET {COutputR(op) : op \in ListCandidates(kind)} :
        \A c \in {COutputR(op) : op \in ListCandidates(kind)} :
            DepthQualified(c.nDepth, m_min_depth, m_max_depth) => c \in S}

\* a depth test that leaves out both bounds
DepthSkipped_Exclusive(nDepth, nMinDepth, nMaxDepth) ==
    nDepth <= nMinDepth \/ nDepth >= nMaxDepth

\* if (out.nDepth < nMinDepth || out.nDepth > nMaxDepth) continue;
DepthSkipped(nDepth, nMinDepth, nMaxDepth) ==
    nDepth < nMinDepth \/ nDepth > nMaxDepth

\* out.rtx->second.GetOutput(out.i) is null
MissingOutput(out) ==
    ~mapRecords[ListWallet][out.txhash].vout[out.i].present

\* the two `continue`s of the address filter
AddressSkipped(out, setAddress) ==
    IF outAddress[out.txhash] # "unknown"
    THEN setAddress # {} /\ outAddress[out.txhash] \notin setAddress
    ELSE setAddress # {}

ListArgSets ==
    [kind : {"anon", "blind"}, nMinDepth : Depths, nMaxDepth : Depths,
     setAddress : {{}, {"sx1"}}]

unspentRest == <<traceVars, sendVars, dbVars, verifyVars, fundVars, rawVars, rpcVars,
                 frozenPc, frozenArgs, frozenResult, frozenTotals>>

\* argument parsing of listunspentanon / listunspentblind
ListBegin ==
    /\ listPc = "idle"
    /\ \E a \in ListArgSets : listArgs' = a
    /\ listPc' = "collect"
    /\ UNCHANGED <<vecOutputs, listResult, txDepth, outAddress, unspentRest>>

\* the first locked block: cctl.m_min_depth, cctl.m_max_depth, Available*Coins
ListCollect ==
    /\ listPc = "collect"
    /\ \E S \in AvailableCoins(listArgs.kind, listArgs.nMinDepth, listArgs.nMaxDepth) :
         vecOutputs' = S
    /\ listPc' = "build"
    /\ UNCHANGED <<listArgs, listResult, txDepth, outAddress, unspentRest>>

\* collected outputs whose iterator rtx points at a record that has been
\* erased from mapRecords since
Dangling(outs) == {o \in outs : ~mapRecords[ListWallet][o.txhash].present}

\* the loop over vecOutputs under the second lock; what out.rtx->second
\* yields for an erased record is not defined: the output is found or not
ListBuild ==
    /\ listPc = "build"
    /\ \E found \in SUBSET Dangling(vecOutputs) :
         listResult' =
            {[hash |-> out.txhash, n |-> out.i] :
               out \in {o \in vecOutputs :
                          /\ ~DepthSkipped(o.nDepth, listArgs.nMinDepth, listArgs.nMaxDepth)
                          /\ IF o \in Dangling(vecOutputs) THEN o \in found
                             ELSE ~MissingOutput(o)
                          /\ ~AddressSkipped(o, listArgs.setAddress)}}
    /\ listPc' = "done"
    /\ UNCHANGED <<listArgs, vecOutputs, txDepth, outAddress, unspentRest>>

ListNext == ListBegin \/ ListCollect \/ ListBuild

\* another thread removes a transaction record while cs_wallet is free:
\* clearwallettransactions, pwallet->UnloadTransaction(hash)
ListUnload ==
    /\ \E hash \in ListTxs :
         /\ mapRecords[ListWallet][hash].present
         /\ mapRecords' = [mapRecords EXCEPT ![ListWallet][hash] = NoRecord]
    /\ UNCHANGED <<storedTx, spentOuts, walletLocked, chain, traceArgs,
                   tracePhase, scanW, top_level, set_forced, walkTodo, walkCur,
                   traced_txns, warnings, traceStack, expandCount, skipCount,
                   traceLocks, nonTraceVars>>

ListRaceNext == ListNext \/ ListUnload

\* a wallet whose transactions 1..NumListTx each hold one owned output, blinded
\* or anonymous, at any depth; the output of transaction 1 resolves to either
\* stealth address or to none, the others to the first stealth address
InitList ==
    /\ \E types \in [ListTxs -> {"blind", "anon"}] :
         mapRecords = [w \in Wallets |-> [t \in TxIds |->
            IF w = ListWallet /\ t \in ListTxs
            THEN [present |-> TRUE, inType |-> "plain", in_height |-> TRUE,
                  vin |-> <<>>,
                  vout |-> [n \in OutIdx |->
                     [present |-> n = 0, nType |-> types[t], owned |-> TRUE,
                      nValue |-> LowValue]]]
            ELSE NoRecord]]
    /\ storedTx = [w \in Wallets |-> [t \in TxIds |-> NoStoredTx]]
    /\ \E spent \in SUBSET {[hash |-> 1, n |-> 0]} :
         spentOuts = [w \in Wallets |-> IF w = ListWallet THEN spent ELSE {}]
    /\ walletLocked = [w \in Wallets |-> FALSE]
    /\ chain = [frozen_blind |-> {}, links |-> {}, blacklist |-> {}, whitelist |-> {},
                keys |-> [w \in Wallets |-> {}]]
    /\ traceArgs = [min_value |-> min_frozen_blinded_value,
                    max_frozen_output_spendable |-> SpendableLimit,
                    extra_txouts |-> {}]
    /\ TraceIdle
    /\ SendIdle /\ DbIdle /\ VerifyIdle /\ FundIdle /\ RawIdle /\ FrozenIdle /\ RpcIdle
    /\ listPc = "idle" /\ listArgs = NoListArgs /\ vecOutputs = {} /\ listResult = {}
    /\ \E depths \in [ListTxs -> Depths] :
         txDepth = [t \in TxIds |-> IF t \in ListTxs THEN depths[t] ELSE 1]
    /\ \E addr \in Addresses :
         outAddress = [t \in TxIds |-> IF t = 1 THEN addr
                                       ELSE IF t \in ListTxs THEN "sx1" ELSE "unknown"]

SpecList == InitList /\ [][ListNext]_vars

\* the listing next to a thread that removes records
SpecListRace == InitList /\ [][ListRaceNext]_vars

\* C25: every transaction record referenced by a collected output still
\* exists, unchanged, when listunspentanon / listunspentblind reads that output
\* to build the reply, whatever another thread did to the wallet in between.
C25_RecordsAliveAtRead ==
    [][(listPc = "build" /\ listPc' = "done") =>
          \A out \in vecOutputs : mapRecords[ListWallet][out.txhash] = out.rtx]_vars

\* the candidates the address filter lets through
ListPassing ==
    {op \in ListCandidates(listArgs.kind) :
        ~AddressSkipped(COutputR(op), listArgs.setAddress)}

\* C10: listunspentanon and listunspentblind return an output only if
\* minconf <= depth <= maxconf, an output at depth minconf or at depth maxconf
\* is returned, and with minconf = maxconf = 0 the reply holds exactly the
\* outputs at depth 0 (of those the wallet lists for the address filter given)
C10_DepthInclusive ==
    listPc = "done" =>
        /\ \A op \in listResult :
             /\ op \in ListPassing
             /\ listArgs.nMinDepth <= txDepth[op.hash]
             /\ txDepth[op.hash] <= listArgs.nMaxDepth
        /\ \A op \in ListPassing :
             (/\ listArgs.nMinDepth <= listArgs.nMaxDepth
              /\ txDepth[op.hash] \in {listArgs.nMinDepth, listArgs.nMaxDepth})
                 => op \in listResult
        /\ (listArgs.nMinDepth = 0 /\ listArgs.nMaxDepth = 0) =>
             listResult = {op \in ListPassing : txDepth[op.hash] = 0}

\* minconf = maxconf = 0 returned an output at depth 0 and left out one at
\* depth 1 that the collector had handed over
C10_Witness ==
    /\ listPc = "done"
    /\ listArgs.nMinDepth = 0 /\ listArgs.nMaxDepth = 0
    /\ \E op \in listResult : txDepth[op.hash] = 0
    /\ \E c \in vecOutputs :
         /\ c.nDepth = 1
         /\ [hash |-> c.txhash, n |-> c.i] \in ListPassing \ listResult

\* ------------------------------------------------------------------------
\* generatematchingblindfactor
\* ------------------------------------------------------------------------
MaxBlinds == 2

Reverse(b) == [i \in 1..Len(b) |-> b[Len(b) + 1 - i]]

\* uint256::SetHex: the hex digits are written most significant first, the
\* bytes are stored least significant first
SetHex(hex) == Reverse(hex)

\* uint256::ToString, that is GetHex
GetHex(b32) == Reverse(b32)

\* secp256k1_scalar_set_b32: the stored bytes read most significant first
ScalarB32(b32) == Num(Reverse(b32))

\* secp256k1_scalar_get_b32
B32Scalar(x) == Reverse(Ser(x, BlindLen))

\* variant: the length of the string is not tested
IsBlindHex_AnyLength(hex) == hex # <<>> /\ \A i \in 1..Len(hex) : hex[i] \in 0..(ByteBase - 1)

\* IsHex(sBlind) && sBlind.size() == 64
IsBlindHex(hex) == Len(hex) = BlindLen /\ \A i \in 1..Len(hex) : hex[i] \in 0..(ByteBase - 1)

\* hex strings a caller may send: small and large scalars, the group order
\* itself, and a string that is one byte short
BlindSamples ==
    {GetHex(B32Scalar(x)) : x \in {0, 1, 2, CurveOrder - 1, CurveOrder}}
        \cup {Ser(1, BlindLen - 1)}

BlindLists == UNION {[1..k -> BlindSamples] : k \in 0..MaxBlinds}

RECURSIVE SumScalars(_)
SumScalars(bs) ==
    IF bs = <<>> THEN 0 ELSE ScalarB32(Head(bs)) + SumScalars(Tail(bs))

\* secp256k1_pedersen_blind_sum: fails on a blind that is not below the group
\* order, else the sum of the first npositive blinds minus the others
BlindSumOk(blinds) == \A i \in 1..Len(blinds) : ScalarB32(blinds[i]) < CurveOrder
BlindSum(blinds, npositive) ==
    LET pos == SumScalars(SubSeq(blinds, 1, npositive))
        neg == SumScalars(SubSeq(blinds, npositive + 1, Len(blinds)))
    IN B32Scalar((pos + (CurveOrder - (neg % CurveOrder))) % CurveOrder)

\* variant: the count is taken after the outputs were appended as well
NBlindedInputs_All(args) == Len(args.inputs) + Len(args.outputs)

\* size_t nBlindedInputs = vpBlinds.size(), taken after the loop over inputs
NBlindedInputs(args) == Len(args.inputs)

\* vpBlinds after the two loops
VpBlinds(args) ==
    [i \in 1..(Len(args.inputs) + Len(args.outputs)) |->
        IF i <= Len(args.inputs) THEN SetHex(args.inputs[i])
        ELSE SetHex(args.outputs[i - Len(args.inputs)])]

MatchError(msg) == [kind |-> "error", blind |-> <<>>, msg |-> msg]

\* the body of generatematchingblindfactor
MatchingBlindFactor(args) ==
    IF Len(args.inputs) < 1
    THEN MatchError("Inputs should contain at least one element.")
    ELSE IF Len(args.outputs) < 1
    THEN MatchError("Outputs should contain at least one element.")
    ELSE IF Len(args.inputs) < Len(args.outputs)
    THEN MatchError("Outputs should be at least one element smaller than the inputs array.")
    ELSE IF \/ \E i \in 1..Len(args.inputs) : ~IsBlindHex(args.inputs[i])
            \/ \E i \in 1..Len(args.outputs) : ~IsBlindHex(args.outputs[i])
    THEN MatchError("Blinding factor must be 32 bytes and hex encoded.")
    ELSE IF ~BlindSumOk(VpBlinds(args))
    THEN MatchError("secp256k1_pedersen_blind_sum failed")
    ELSE [kind |-> "ok",
          blind |-> GetHex(BlindSum(VpBlinds(args), NBlindedInputs(args))),
          msg |-> ""]

matchRest == <<traceVars, sendVars, dbVars, verifyVars, fundVars, rawVars, listVars,
               debugVars, parseVars, miscVars>>

\* one call of generatematchingblindfactor
MatchCall ==
    /\ matchResult.kind = "none"
    /\ matchResult' = MatchingBlindFactor(matchArgs)
    /\ UNCHANGED <<matchArgs, matchRest>>

MatchNext == MatchCall

\* wallets without transactions: the handler uses none of them
EmptyWallets ==
    /\ mapRecords = [w \in Wallets |-> [t \in TxIds |-> NoRecord]]
    /\ storedTx = [w \in Wallets |-> [t \in TxIds |-> NoStoredTx]]
    /\ spentOuts = [w \in Wallets |-> {}]
    /\ walletLocked = [w \in Wallets |-> FALSE]
    /\ chain = [frozen_blind |-> {}, links |-> {}, blacklist |-> {},
                whitelist |-> {}, keys |-> [w \in Wallets |-> {}]]
    /\ traceArgs = [min_value |-> min_frozen_blinded_value,
                    max_frozen_output_spendable |-> SpendableLimit,
                    extra_txouts |-> {}]

InitMatch ==
    /\ EmptyWallets
    /\ TraceIdle
    /\ SendIdle /\ DbIdle /\ VerifyIdle /\ FundIdle /\ RawIdle /\ ListIdle /\ DebugIdle /\ ParseIdle /\ MiscIdle
    /\ \E ins \in BlindLists, outs \in BlindLists :
         matchArgs = [inputs |-> ins, outputs |-> outs]
    /\ matchResult = [kind |-> "none", blind |-> <<>>, msg |-> ""]

SpecMatch == InitMatch /\ [][MatchNext]_vars

\* the number a blinding factor written as hex stands for
HexValue(hex) == Num(hex)

RECURSIVE SumHex(_)
SumHex(hs) == IF hs = <<>> THEN 0 ELSE HexValue(Head(hs)) + SumHex(Tail(hs))

\* C11: for every blind_in and blind_out that generatematchingblindfactor
\* accepts, the sum of the input blinds equals the sum of the output blinds
\* plus the returned blind, modulo the curve order, and the returned blind is
\* a valid blinding factor.
C11_BlindCloses ==
    matchResult.kind = "ok" =>
        /\ IsBlindHex(matchResult.blind)
        /\ HexValue(matchResult.blind) < CurveOrder
        /\ SumHex(matchArgs.inputs) % CurveOrder
             = (SumHex(matchArgs.outputs) + HexValue(matchResult.blind)) % CurveOrder

\* two inputs and one output were accepted and closed by a non-zero blind
C11_Witness ==
    /\ matchResult.kind = "ok"
    /\ Len(matchArgs.inputs) = 2 /\ Len(matchArgs.outputs) = 1
    /\ HexValue(matchArgs.outputs[1]) > HexValue(matchArgs.inputs[1])
    /\ HexValue(matchResult.blind) # 0

\* C26: generatematchingblindfactor answers a request whose two lists are not
\* empty with "Outputs should be at least one element smaller than the inputs
\* array." unless the outputs are at least one fewer than the inputs; lists of
\* equal length are rejected.
C26_OutputsFewerThanInputs ==
    (/\ matchResult.kind # "none"
     /\ Len(matchArgs.inputs) >= 1 /\ Len(matchArgs.outputs) >= 1
     /\ Len(matchArgs.outputs) + 1 > Len(matchArgs.inputs)) =>
        matchResult =
           MatchError("Outputs should be at least one element smaller than the inputs array.")


\* ------------------------------------------------------------------------
\* The tracer over wallets that may be locked and data that may be unreadable
\* ------------------------------------------------------------------------
\* transaction 1 spends output 0 of transaction 2, with or without the
\* reverse reference
FaultEdgeLists ==
    {<<>>,
     <<[src |-> 1, op |-> [hash |-> 2, n |-> 0]]>>,
     <<[src |-> 1, op |-> [hash |-> 2, n |-> 0]],
       [src |-> 2, op |-> [hash |-> 1, n |-> 0]]>>}

FaultOutputs(type) == [n \in OutIdx |->
    [present |-> TRUE, nType |-> type, owned |-> TRUE,
     nValue |-> IF n = 0 THEN HighValue ELSE LowValue]]

InitTraceFaults ==
    /\ \E edges \in FaultEdgeLists, held2 \in SUBSET TxIds,
          anonTx \in SUBSET (1..2), unreadable \in SUBSET (1..2),
          noBlind \in BOOLEAN, links \in {{}, Outpoints} :
         /\ Cardinality(held2) <= 1
         /\ mapRecords = [w \in Wallets |-> [t \in TxIds |->
               IF w = 1 \/ t \in held2
               THEN [present |-> TRUE,
                     inType |-> IF VinOf(edges, t) = <<>> THEN "plain" ELSE "blind",
                     in_height |-> TRUE, vin |-> VinOf(edges, t),
                     vout |-> FaultOutputs(IF t \in anonTx THEN "anon" ELSE "blind")]
               ELSE NoRecord]]
         /\ chain = [frozen_blind |-> TxIds, links |-> links, blacklist |-> {},
                     whitelist |-> {}, keys |-> [w \in Wallets |-> {}]]
         /\ storedTx = [w \in Wallets |-> [t \in TxIds |->
               IF mapRecords[w][t].present /\ t \notin unreadable
               THEN [present |-> TRUE, blinds |-> IF noBlind THEN {} ELSE OutIdx]
               ELSE NoStoredTx]]
    /\ spentOuts = [w \in Wallets |-> {}]
    /\ walletLocked \in [Wallets -> BOOLEAN]
    /\ traceArgs = [min_value |-> min_frozen_blinded_value,
                    max_frozen_output_spendable |-> SpendableLimit,
                    extra_txouts |-> {}]
    /\ TraceIdle
    /\ NonTraceIdle

SpecTraceFaults == InitTraceFaults /\ [][TraceNext]_vars

\* the trace has not touched its result or any wallet
TraceUntouched ==
    /\ top_level = {} /\ set_forced = {} /\ walkTodo = <<>>
    /\ traced_txns = [t \in TxIds |-> NoTracedTx]
    /\ warnings = <<>> /\ traceStack = <<>> /\ traceLocks = {}

\* C13: when any loaded wallet is locked, the trace fails at the unlock check:
\* it never leaves the states "not started" and "failed", no wallet lock is
\* taken, no output is traced, no warning and no partial result is produced.
C13_LockedWalletFailsFirst ==
    (\E w \in Wallets : walletLocked[w]) =>
        /\ tracePhase \in {"idle", "failed"}
        /\ TraceUntouched

\* the trace failed although only the second wallet is locked and the first
\* wallet holds a frozen output
C13_Witness ==
    /\ tracePhase = "failed"
    /\ ~walletLocked[1] /\ walletLocked[2]
    /\ ScanResult(1, "add") # {}


Warned(kind, hash, n) ==
    \E i \in 1..Len(warnings) : warnings[i] = [kind |-> kind, hash |-> hash, n |-> n]

\* the stored transaction of some wallet that holds the record cannot be read
StoredTxUnreadable(t) ==
    \E w \in Wallets : mapRecords[w][t].present /\ ~storedTx[w][t].present

\* every warning of the given kinds names a transaction or output whose read failed
WarningsNameFailures ==
    \A i \in 1..Len(warnings) :
        LET wn == warnings[i]
            op == [hash |-> wn.hash, n |-> wn.n]
        IN /\ wn.kind = "ReadStoredTx" => StoredTxUnreadable(wn.hash)
           /\ wn.kind = "AnonIndex" => StoredTxUnreadable(wn.hash) \/ op \notin chain.links
           /\ wn.kind = "ReadRCTOutputLink" => op \notin chain.links
           /\ wn.kind = "GetBlind" =>
                 \E w \in Wallets : /\ storedTx[w][wn.hash].present
                                    /\ GetBlind(storedTx[w][wn.hash], wn.hash, wn.n) = 0

\* every failed read met so far has its warning
FailuresWarned ==
    \A t \in TxIds : traced_txns[t].present =>
        \A n \in OutIdx :
            LET o == traced_txns[t].m_outputs[n]
                op == [hash |-> t, n |-> n]
            IN o.present /\ o.m_type # "null" =>
                 /\ o.m_blind = 0 => Warned("GetBlind", t, n)
                 /\ o.m_type = "anon" /\ op \notin chain.links =>
                        Warned("ReadRCTOutputLink", t, n)

\* C14: a stored transaction, an anon index link or a blinding factor that
\* cannot be read never ends the trace: the only ways out other than the reply
\* are the unlock check and an exhausted call stack; every warning names a
\* failed read, every failed read has its warning, and in the reply every
\* frozen outpoint whose own index could be read is among the traced
\* transactions.
C14_ReadFailuresOnlyWarn ==
    /\ tracePhase = "failed" => \E w \in Wallets : walletLocked[w]
    /\ tracePhase = "overflow" => Len(traceStack) >= MaxStack
    /\ WarningsNameFailures
    /\ FailuresWarned
    /\ tracePhase = "done" =>
          /\ \A w \in Wallets :
                /\ \A op \in ScanResult(w, "add") :
                      op \in top_level /\ traced_txns[op.hash].present
                /\ \A op \in ScanResult(w, "warn") : Warned("AnonIndex", op.hash, op.n)
                /\ \A t \in TxIds :
                      /\ mapRecords[w][t].present /\ traced_txns[t].present
                      /\ ~storedTx[w][t].present
                      => Warned("ReadStoredTx", t, -1)

\* a trace that met an unreadable stored transaction, an unreadable index
\* link and a missing blinding factor has returned its reply with a traced
\* outpoint
C14_Witness ==
    /\ tracePhase = "done"
    /\ \E t \in TxIds : Warned("ReadStoredTx", t, -1)
    /\ \E op \in Outpoints : Warned("ReadRCTOutputLink", op.hash, op.n)
    /\ \E op \in Outpoints : Warned("GetBlind", op.hash, op.n)
    /\ \E op \in top_level : traced_txns[op.hash].present


\* C15: in every step of a trace the tracing thread holds the lock of at most
\* one wallet, also inside the recursive calls of traceFrozenPrevout.
C15_OneWalletLockAtATime == Cardinality(traceLocks) <= 1

\* a recursive call holds the lock of the second wallet while its caller is
\* in the loop of the first wallet
C15_Witness ==
    /\ tracePhase = "walk" /\ Len(traceStack) >= 2
    /\ traceStack[Len(traceStack) - 1].w = 1
    /\ traceLocks = {2}

\* C18: no step of a trace changes the transaction records, the stored
\* transactions or the spent flags of any wallet.
C18_WalletStateUnchanged == [][UNCHANGED <<mapRecords, storedTx, spentOuts>>]_vars

\* a trace that looked a transaction up in a wallet that does not hold it
\* has returned
C18_Witness ==
    /\ tracePhase = "done"
    /\ \E t \in TxIds : traced_txns[t].present /\ ~mapRecords[2][t].present


\* ------------------------------------------------------------------------
\* debugwallet: "Checking mapRecord plain values, blinding factors and anon
\* spends"
\* ------------------------------------------------------------------------
\* the wallet debugwallet is called on, and the one record it holds
DebugWallet == 1
DebugTx == 1

DebugError(type, txid, n) == [type |-> type, txid |-> txid, n |-> n]

\* the outputs that must have a blinding factor: owned or from-self, unspent
BlindRequired(w, txid, r, n) ==
    /\ r.nType \in {"blind", "anon"}
    /\ "ORF_OWNED" \in r.nFlags \/ "ORF_FROM" \in r.nFlags
    /\ ~IsSpent(w, txid, n)

\* the condition under which the blinding factor of output r is looked up
NeedsBlind(w, txid, r, n) ==
    /\ r.nType \in {"blind", "anon"}
    /\ "ORF_OWNED" \in r.nFlags \/ "ORF_STAKEONLY" \in r.nFlags
    /\ ~IsSpent(w, txid, n)

\* the checks of an owned anon output: errors in the order the code tests
AnonSpendErrors(w, txid, n) ==
    LET op == [hash |-> txid, n |-> n]
        stx == storedTx[w][txid]
        spent_in_chain == op \in chain.keyimages
        spent_in_wallet == IsSpent(w, txid, n)
    IN IF n \notin stx.pubkeys
       THEN <<DebugError("Could not get anon pubkey.", txid, n)>>
       ELSE IF op \notin chain.keys[w]
       THEN <<DebugError("Could not get anon spend key.", txid, n)>>
       ELSE IF spent_in_chain /\ ~spent_in_wallet
       THEN <<DebugError("Spent in chain but not wallet.", txid, n)>>
       ELSE IF ~spent_in_chain /\ spent_in_wallet
       THEN <<DebugError("Spent in wallet but not chain.", txid, n)>>
       ELSE <<>>

\* one iteration of the loop over rtx.vout
DebugOutputErrors(w, txid, n) ==
    LET r == mapRecords[w][txid].vout[n]
        stx == storedTx[w][txid]
    IN IF ~r.present THEN <<>>
       ELSE IF r.nType = "standard"
       THEN (IF n \notin stx.plainOk
             THEN <<DebugError("Plain value mismatch.", txid, n)>> ELSE <<>>)
       ELSE (IF NeedsBlind(w, txid, r, n) /\ GetBlind(stx, txid, n) = 0
             THEN <<DebugError("Missing blinding factor.", txid, n)>> ELSE <<>>)
            \o
            (IF r.nType = "anon" /\ "ORF_OWNED" \in r.nFlags
             THEN AnonSpendErrors(w, txid, n) ELSE <<>>)

RECURSIVE DebugVoutErrors(_, _, _)
DebugVoutErrors(w, txid, n) ==
    IF n >= NumOut THEN <<>>
    ELSE DebugOutputErrors(w, txid, n) \o DebugVoutErrors(w, txid, n + 1)

\* one iteration of the loop over pwallet->mapRecords
DebugRecordErrors(w, txid) ==
    LET rtx == mapRecords[w][txid]
    IN IF ~rtx.present \/ ~rtx.trusted THEN <<>>
       ELSE IF ~storedTx[w][txid].present
       THEN <<DebugError("Missing stored txn.", txid, -1)>>
       ELSE DebugVoutErrors(w, txid, 0)

RECURSIVE DebugMapErrors(_, _)
DebugMapErrors(w, txid) ==
    IF txid > NumTx THEN <<>>
    ELSE DebugRecordErrors(w, txid) \o DebugMapErrors(w, txid + 1)

debugRest == <<traceVars, sendVars, dbVars, verifyVars, fundVars, rawVars, listVars,
               matchVars, parseVars, miscVars>>

\* debugwallet without options: the unlock check, then the record check
DebugWalletCheck ==
    /\ debugPc = "idle"
    /\ IF walletLocked[DebugWallet]
       THEN debugPc' = "failed" /\ UNCHANGED debugErrors
       ELSE debugPc' = "done" /\ debugErrors' = DebugMapErrors(DebugWallet, 1)
    /\ UNCHANGED debugRest

DebugNext == DebugWalletCheck

OutputFlagSets ==
    {{}, {"ORF_OWNED"}, {"ORF_FROM"}, {"ORF_STAKEONLY"}, {"ORF_OWNED", "ORF_FROM"}}

InitDebug ==
    /\ \E types \in [OutIdx -> {"standard", "blind", "anon"}],
          flags \in OutputFlagSets, trusted \in BOOLEAN :
         mapRecords = [w \in Wallets |-> [t \in TxIds |->
            IF w = DebugWallet /\ t = DebugTx
            THEN [present |-> TRUE, inType |-> "plain", in_height |-> TRUE,
                  trusted |-> trusted, vin |-> <<>>,
                  vout |-> [n \in OutIdx |->
                     [present |-> TRUE, nType |-> types[n],
                      nFlags |-> IF n = 0 THEN flags ELSE {"ORF_OWNED"},
                      owned |-> n # 0 \/ "ORF_OWNED" \in flags,
                      nValue |-> LowValue]]]
            ELSE NoRecord]]
    /\ \E stored \in BOOLEAN, blinds \in SUBSET OutIdx, plainOk \in BOOLEAN,
          pubkeys \in BOOLEAN :
         storedTx = [w \in Wallets |-> [t \in TxIds |->
            IF w = DebugWallet /\ t = DebugTx /\ stored
            THEN [present |-> TRUE, blinds |-> blinds,
                  plainOk |-> IF plainOk THEN OutIdx ELSE {},
                  pubkeys |-> IF pubkeys THEN OutIdx ELSE {}]
            ELSE NoStoredTx]]
    /\ \E spent \in SUBSET {[hash |-> DebugTx, n |-> 0]} :
         spentOuts = [w \in Wallets |-> IF w = DebugWallet THEN spent ELSE {}]
    /\ walletLocked \in {[w \in Wallets |-> FALSE],
                         [w \in Wallets |-> w = DebugWallet]}
    /\ \E haveKeys \in BOOLEAN, images \in SUBSET {[hash |-> DebugTx, n |-> 0]} :
         chain = [frozen_blind |-> {}, links |-> {}, blacklist |-> {}, whitelist |-> {},
                  keys |-> [w \in Wallets |-> IF haveKeys THEN Outpoints ELSE {}],
                  keyimages |-> images]
    /\ traceArgs = [min_value |-> min_frozen_blinded_value,
                    max_frozen_output_spendable |-> SpendableLimit,
                    extra_txouts |-> {}]
    /\ TraceIdle
    /\ SendIdle /\ DbIdle /\ VerifyIdle /\ FundIdle /\ RawIdle /\ ListIdle /\ MatchIdle /\ ParseIdle /\ MiscIdle
    /\ DebugIdle

SpecDebug == InitDebug /\ [][DebugNext]_vars

DebugReported(type, txid, n) ==
    \E i \in 1..Len(debugErrors) : debugErrors[i] = DebugError(type, txid, n)

\* C16: after debugwallet's record check, every unspent blinded or anonymous
\* output record that is owned or from-self, in a trusted transaction whose
\* stored transaction can be read but holds no blinding factor for it, has a
\* "Missing blinding factor." error.
C16_MissingBlindReported ==
    debugPc = "done" =>
        \A t \in TxIds, n \in OutIdx :
            LET rtx == mapRecords[DebugWallet][t]
                r == rtx.vout[n]
            IN /\ rtx.present /\ rtx.trusted /\ r.present
               /\ storedTx[DebugWallet][t].present
               /\ BlindRequired(DebugWallet, t, r, n)
               /\ n \notin storedTx[DebugWallet][t].blinds
               => DebugReported("Missing blinding factor.", t, n)


\* ------------------------------------------------------------------------
\* Explicit blinding factors in sendtypeto outputs, coin-control inputs and
\* createrawparttransaction outputs
\* ------------------------------------------------------------------------
\* a character that is not a hex digit
NonHexChar == ByteBase

\* strings a caller may send as a blinding factor: well formed, one byte
\* short, one byte long, not hex, empty
BlindStrings ==
    {Ser(1, BlindLen), Ser(1, BlindLen - 1), Ser(1, BlindLen + 1),
     [i \in 1..BlindLen |-> NonHexChar], <<>>}

\* the "blindingfactor" / "blind" member of an entry: absent, a number or a string
BlindArgs ==
    {[kind |-> "absent", s |-> <<>>], [kind |-> "num", s |-> <<>>]}
        \cup {[kind |-> "str", s |-> x] : x \in BlindStrings}

ParseItems(types) ==
    UNION {[1..k -> [type : types, blind : BlindArgs]] : k \in 1..MaxBlinds}

ParseRequests ==
    [op : {"sendtypeto"}, typeOut : {"standard", "blind", "anon"},
     items : ParseItems({"null"})]
    \cup [op : {"coincontrol"}, typeOut : {"null"}, items : ParseItems({"null"})]
    \cup [op : {"createraw"}, typeOut : {"null"},
          items : ParseItems({"standard", "blind", "anon"})]

BlindFormatError == "Blinding factor must be 32 bytes and hex encoded."

\* blinding factors GetStrongRandBytes may produce
RandomBlinds == {B32Scalar(1), B32Scalar(2)}

parseRest == <<traceVars, sendVars, dbVars, verifyVars, fundVars, rawVars, listVars,
               matchVars, debugVars, miscVars>>

ParseThrow(msg) ==
    /\ parsePc' = "failed" /\ parseError' = msg
    /\ UNCHANGED <<parseK, parseBuilt>>

ParsePush(entry) ==
    /\ parseBuilt' = Append(parseBuilt, entry)
    /\ parseK' = parseK + 1
    /\ parsePc' = IF parseK = Len(parseReq.items) THEN "done" ELSE "run"
    /\ UNCHANGED parseError

ParseSkip ==
    /\ parseK' = parseK + 1
    /\ parsePc' = IF parseK = Len(parseReq.items) THEN "done" ELSE "run"
    /\ UNCHANGED <<parseBuilt, parseError>>

\* SendToInner: one iteration of the loop over the outputs, from the
\* "blindingfactor" member to AddOutput
ParseSendOutput ==
    /\ parsePc = "run" /\ parseReq.op = "sendtypeto"
    /\ LET b == parseReq.items[parseK].blind IN
       IF b.kind = "num"
       THEN ParseThrow("JSON value is not a string as expected")
       ELSE IF b.kind = "str" /\ ~IsBlindHex(b.s)
       THEN ParseThrow(BlindFormatError)
       ELSE ParsePush([k |-> parseK, nType |-> parseReq.typeOut,
                       vBlind |-> IF b.kind = "str" THEN SetHex(b.s) ELSE <<>>])
    /\ UNCHANGED <<parseReq, parseSelected, parseRest>>

\* ParseCoinControlOptions: one iteration of the loop over "inputs"
ParseCoinControlInput ==
    /\ parsePc = "run" /\ parseReq.op = "coincontrol"
    /\ parseSelected' = parseSelected \cup {parseK}
    /\ LET b == parseReq.items[parseK].blind IN
       IF b.kind = "str" /\ ~IsBlindHex(b.s)
       THEN ParseThrow(BlindFormatError)
       ELSE IF b.kind = "str"
       THEN ParsePush([k |-> parseK, nType |-> "null", vBlind |-> SetHex(b.s)])
       ELSE ParseSkip
    /\ UNCHANGED <<parseReq, parseRest>>

\* createrawparttransaction: one iteration of the loop over the outputs
ParseRawOutput ==
    /\ parsePc = "run" /\ parseReq.op = "createraw"
    /\ LET it == parseReq.items[parseK]
           b == it.blind
       IN IF it.type \notin {"blind", "anon"}
          THEN ParsePush([k |-> parseK, nType |-> it.type, vBlind |-> <<>>])
          ELSE IF b.kind = "str" /\ ~IsBlindHex(b.s)
          THEN ParseThrow(BlindFormatError)
          ELSE IF b.kind = "str"
          THEN ParsePush([k |-> parseK, nType |-> it.type, vBlind |-> SetHex(b.s)])
          ELSE \E rnd \in RandomBlinds :
                  ParsePush([k |-> parseK, nType |-> it.type, vBlind |-> rnd])
    /\ UNCHANGED <<parseReq, parseSelected, parseRest>>

ParseNext == ParseSendOutput \/ ParseCoinControlInput \/ ParseRawOutput

\* outputs of a sendtypeto request that may set "script" or "stakeaddress":
\* the address is the placeholder 'script', a valid p2pkh address, a valid
\* stealth address, or a string that decodes to nothing
AddressKinds == {"script", "address", "stealth", "invalid"}
ScriptItems ==
    UNION {[1..k -> [address : AddressKinds, script : BOOLEAN, stakeaddress : BOOLEAN]] :
              k \in 1..MaxBlinds}
ScriptRequests ==
    [op : {"sendscript"}, typeOut : {"standard", "blind", "anon"}, items : ScriptItems]

\* CBitcoinAddress::IsValid, IsValidStealthAddress
AddressIsValid(a) == a \in {"address", "stealth"}

\* if (sAddress != "script") { JSONRPCError(...); }: the error object is
\* built and dropped, nothing is thrown
ScriptAddressError(sAddress) == ""

\* SendToInner: one iteration of the loop over the outputs, with the
\* "address", "stakeaddress" and "script" members
ParseScriptOutput ==
    /\ parsePc = "run" /\ parseReq.op = "sendscript"
    /\ LET it == parseReq.items[parseK]
           typeOut == parseReq.typeOut
       IN IF typeOut = "anon" /\ it.address # "stealth"
          THEN ParseThrow("Invalid Falcon stealth address")
          ELSE IF ~AddressIsValid(it.address) /\ ~it.script
          THEN ParseThrow("Invalid Falcon address")
          ELSE IF it.stakeaddress /\ it.script
          THEN ParseThrow("\"script\" and \"stakeaddress\" can't be used together.")
          ELSE IF it.stakeaddress /\ typeOut # "standard"
          THEN ParseThrow("\"stakeaddress\" is only valid for standard outputs.")
          ELSE IF it.stakeaddress /\ it.address = "address"
          THEN ParseThrow("Invalid addrspend, can't be p2pkh.")
          ELSE IF it.script /\ typeOut # "standard"
          THEN ParseThrow("TODO: Currently setting a script only works for standard outputs.")
          ELSE IF it.script /\ ScriptAddressError(it.address) # ""
          THEN ParseThrow(ScriptAddressError(it.address))
          ELSE ParsePush([k |-> parseK, nType |-> typeOut, address |-> it.address,
                          fScriptSet |-> it.script, coldStaking |-> it.stakeaddress])
    /\ UNCHANGED <<parseReq, parseSelected, parseRest>>

ParseScriptNext == ParseScriptOutput

InitParse ==
    /\ EmptyWallets
    /\ TraceIdle
    /\ SendIdle /\ DbIdle /\ VerifyIdle /\ FundIdle /\ RawIdle /\ ListIdle
    /\ MatchIdle /\ DebugIdle /\ MiscIdle
    /\ parseReq \in ParseRequests
    /\ parsePc = "run" /\ parseK = 1 /\ parseSelected = {} /\ parseBuilt = <<>>
    /\ parseError = ""

SpecParse == InitParse /\ [][ParseNext]_vars

InitParseScript ==
    /\ EmptyWallets
    /\ TraceIdle
    /\ SendIdle /\ DbIdle /\ VerifyIdle /\ FundIdle /\ RawIdle /\ ListIdle
    /\ MatchIdle /\ DebugIdle /\ MiscIdle
    /\ parseReq \in ScriptRequests
    /\ parsePc = "run" /\ parseK = 1 /\ parseSelected = {} /\ parseBuilt = <<>>
    /\ parseError = ""

SpecParseScript == InitParseScript /\ [][ParseScriptNext]_vars

\* an output that sets "script" while its "address" is not the placeholder
ScriptWithAddress(it) == it.script /\ it.address # "script"

\* C27: sendtypeto rejects, with "Address parameter must be 'script' to set
\* script explicitly.", an output that sets "script" while its "address" is not
\* 'script': once the loop has taken such an output the request has failed,
\* and a request holding one never gets all its outputs parsed.
C27_ScriptNeedsPlaceholder ==
    /\ \A i \in 1..Len(parseBuilt) : ~ScriptWithAddress(parseReq.items[parseBuilt[i].k])
    /\ (parsePc = "done" /\ parseReq.op = "sendscript") =>
          \A k \in 1..Len(parseReq.items) : ~ScriptWithAddress(parseReq.items[k])

\* a string of exactly 32 bytes of hex
ExactBlindHex(str) ==
    Len(str) = BlindLen /\ \A i \in 1..Len(str) : str[i] \in 0..(ByteBase - 1)

\* entry k carries a string that is not exactly 32 bytes of hex
BadBlindString(k) ==
    LET b == parseReq.items[k].blind IN b.kind = "str" /\ ~ExactBlindHex(b.s)

\* the loop stopped at entry k with the format error and built nothing from it
RejectedAt(k) ==
    /\ parsePc = "failed" /\ parseK = k /\ parseError = BlindFormatError
    /\ \A i \in 1..Len(parseBuilt) : parseBuilt[i].k # k

\* C17 (as stated): in each of the three operations, once the loop has
\* reached an entry whose blinding factor is a string that is not exactly 32
\* bytes of hex, the operation has failed at that entry with the format
\* error and nothing was built from the entry.
C17_BadBlindRejected ==
    \A k \in 1..Len(parseReq.items) :
        BadBlindString(k) /\ (parseK > k \/ (parseK = k /\ parsePc # "run"))
        => RejectedAt(k)

\* the entries whose blinding factor the operation validates: every output
\* of sendtypeto, every coin-control input, and the blinded and anonymous
\* outputs of createrawparttransaction
BlindValidated(k) ==
    parseReq.op = "createraw" => parseReq.items[k].type \in {"blind", "anon"}

\* C17 (amended): the same for the entries the operation validates; a bad
\* string on a standard output of createrawparttransaction is passed over,
\* and the output is built without a blinding factor.
C17_ValidatedBadBlindRejected ==
    \A k \in 1..Len(parseReq.items) :
        BadBlindString(k) /\ (parseK > k \/ (parseK = k /\ parsePc # "run"))
        => IF BlindValidated(k)
           THEN RejectedAt(k)
           ELSE \E i \in 1..Len(parseBuilt) :
                   parseBuilt[i].k = k /\ parseBuilt[i].vBlind = <<>>

\* a bad string at the second entry was rejected after the first entry was
\* built from a well-formed one
C17_Witness ==
    /\ parseK = 2 /\ Len(parseReq.items) >= 2 /\ Len(parseBuilt) = 1
    /\ BadBlindString(parseK) /\ BlindValidated(parseK) /\ RejectedAt(parseK)
    /\ parseBuilt[1].vBlind = SetHex(parseReq.items[1].blind.s)
    /\ parseReq.items[1].blind.kind = "str"


\* ------------------------------------------------------------------------
\* CTransactionRecord: SetMerkleBranch, SetAbandoned, GetTxTime
\* ------------------------------------------------------------------------
\* int16_t nIndex: the value an int takes when it is stored in 16 bits
Int16(x) == LET m == x % 65536 IN IF m >= 32768 THEN m - 65536 ELSE m

\* positions in a block, and the marker -1 of a conflicted transaction
BlockPositions == {-1, 0, 1, 32767, 32768, 65535}

MaxTxTime == 2

\* nTimeReceived and nBlockTime
TxTimes == 0..MaxTxTime

IsAbandoned(rec) == rec.blockHash = "ABANDON_HASH"
isConflicted(rec) == rec.nIndex = -1
HashUnset(rec) == rec.blockHash = "null" \/ rec.blockHash = "ABANDON_HASH"

\* CTransactionRecord::GetTxTime
GetTxTime(rec) ==
    IF HashUnset(rec) \/ rec.nIndex < 0
    THEN rec.nTimeReceived
    ELSE Min({rec.nTimeReceived, rec.nBlockTime})

recordRest == <<traceVars, sendVars, dbVars, verifyVars, fundVars, rawVars, listVars,
                matchVars, debugVars, parseVars, placeVars, spendVars>>

\* CTransactionRecord::SetMerkleBranch, with the block time of that block
SetMerkleBranch ==
    /\ \E h \in {"null", "block"}, pos \in BlockPositions, bt \in TxTimes :
         txRecord' = [txRecord EXCEPT !.blockHash = h, !.nIndex = Int16(pos),
                                      !.nBlockTime = bt]
    /\ UNCHANGED <<txTime, recordRest>>

\* CTransactionRecord::SetAbandoned
SetAbandoned ==
    /\ txRecord' = [txRecord EXCEPT !.blockHash = "ABANDON_HASH"]
    /\ UNCHANGED <<txTime, recordRest>>

GetTxTimeCall ==
    /\ txTime' = [called |-> TRUE, rec |-> txRecord, value |-> GetTxTime(txRecord)]
    /\ UNCHANGED <<txRecord, recordRest>>

RecordNext == SetMerkleBranch \/ SetAbandoned \/ GetTxTimeCall

InitRecord ==
    /\ EmptyWallets
    /\ TraceIdle
    /\ SendIdle /\ DbIdle /\ VerifyIdle /\ FundIdle /\ RawIdle /\ ListIdle
    /\ MatchIdle /\ DebugIdle /\ ParseIdle /\ PlaceIdle /\ SpendIdle
    /\ \E tr \in TxTimes :
         txRecord = [blockHash |-> "null", nIndex |-> 0, nBlockTime |-> 0,
                     nTimeReceived |-> tr]
    /\ txTime = [called |-> FALSE, rec |-> txRecord, value |-> 0]

SpecRecord == InitRecord /\ [][RecordNext]_vars

\* block hash set, not abandoned, not conflicted
Confirmed(rec) == rec.blockHash # "null" /\ ~IsAbandoned(rec) /\ ~isConflicted(rec)

\* C21: GetTxTime returns min(nTimeReceived, nBlockTime) for a confirmed
\* record and nTimeReceived for every other record.
C21_TxTimeOfRecord ==
    txTime.called =>
        txTime.value = IF Confirmed(txTime.rec)
                       THEN Min({txTime.rec.nTimeReceived, txTime.rec.nBlockTime})
                       ELSE txTime.rec.nTimeReceived

\* ------------------------------------------------------------------------
\* traceFrozenOutputs: building the output, placeTracedInputTxns
\* ------------------------------------------------------------------------
placeRest == <<traceVars, sendVars, dbVars, verifyVars, fundVars, rawVars, listVars,
               matchVars, debugVars, parseVars, recordVars, spendVars>>

\* traced transactions: the inputs of a transaction are older transactions,
\* each named once; top_level names traced transactions, each once
InputLists(t) == {SortIds(S) : S \in SUBSET {u \in TxIds : u < t}}
PlaceGraphs ==
    [inputs : {f \in [TxIds -> UNION {InputLists(t) : t \in TxIds}] :
                  \A t \in TxIds : f[t] \in InputLists(t)},
     top_level : {SortIds(S) : S \in SUBSET TxIds}]

Frame(spend, parent) == [spend_txid |-> spend, parent |-> parent, i |-> 1]

\* placeTracedInputTxns run to its end on its own, over the pairs in placed:
\* the entries it writes and the pairs afterwards
RECURSIVE PlaceInputs(_, _, _, _, _)
PlaceInputs(g, spend_txid, i, placed, out) ==
    IF i > Len(g.inputs[spend_txid]) THEN [placed |-> placed, out |-> out]
    ELSE LET hash == g.inputs[spend_txid][i] IN
         IF <<hash, spend_txid>> \in placed
         THEN PlaceInputs(g, spend_txid, i + 1, placed,
                          Append(out, <<hash, spend_txid, "repeat">>))
         ELSE LET r == PlaceInputs(g, hash, 1, placed,
                                   Append(out, <<hash, spend_txid, "inputs">>))
              IN PlaceInputs(g, spend_txid, i + 1,
                             r.placed \cup {<<hash, spend_txid>>}, r.out)

\* the loop over top_level of a trace that starts with the pairs in placed
RECURSIVE PlaceTopLevel(_, _, _, _)
PlaceTopLevel(g, k, placed, out) ==
    IF k > Len(g.top_level) THEN out
    ELSE LET r == PlaceInputs(g, g.top_level[k], 1, placed, out)
         IN PlaceTopLevel(g, k + 1, r.placed, r.out)

\* a trace call reaches the loop over top_level
PlaceBegin(c) ==
    /\ placePc[c] = "idle"
    /\ placePc' = [placePc EXCEPT ![c] = "build"]
    /\ placeStart' = [placeStart EXCEPT ![c] = set_placed]
    /\ UNCHANGED <<set_placed, placeGraph, placeTop, placeStack, placeOut, placeRest>>

\* the loop over top_level calls placeTracedInputTxns for the next transaction
PlaceTop(c) ==
    /\ placePc[c] = "build" /\ placeStack[c] = <<>>
    /\ placeTop[c] <= Len(placeGraph.top_level)
    /\ placeStack' = [placeStack EXCEPT
                         ![c] = <<Frame(placeGraph.top_level[placeTop[c]], 0)>>]
    /\ placeTop' = [placeTop EXCEPT ![c] = @ + 1]
    /\ UNCHANGED <<set_placed, placeGraph, placePc, placeOut, placeStart, placeRest>>

\* placeTracedInputTxns looks at its next input: "repeat" for a pair of
\* set_placed, a nested call otherwise
PlaceInput(c) ==
    /\ placeStack[c] # <<>>
    /\ LET d == Len(placeStack[c])
           f == placeStack[c][d]
           ins == placeGraph.inputs[f.spend_txid]
       IN /\ f.i <= Len(ins)
          /\ IF <<ins[f.i], f.spend_txid>> \in set_placed
             THEN /\ placeOut' = [placeOut EXCEPT
                                    ![c] = Append(@, <<ins[f.i], f.spend_txid, "repeat">>)]
                  /\ placeStack' = [placeStack EXCEPT ![c][d].i = @ + 1]
             ELSE /\ placeOut' = [placeOut EXCEPT
                                    ![c] = Append(@, <<ins[f.i], f.spend_txid, "inputs">>)]
                  /\ placeStack' = [placeStack EXCEPT
                                      ![c] = Append(@, Frame(ins[f.i], f.spend_txid))]
    /\ UNCHANGED <<set_placed, placeGraph, placePc, placeTop, placeStart, placeRest>>

\* placeTracedInputTxns returns; a nested call's pair is inserted on return
PlaceReturn(c) ==
    /\ placeStack[c] # <<>>
    /\ LET d == Len(placeStack[c])
           f == placeStack[c][d]
       IN /\ f.i > Len(placeGraph.inputs[f.spend_txid])
          /\ IF d = 1
             THEN /\ placeStack' = [placeStack EXCEPT ![c] = <<>>]
                  /\ UNCHANGED set_placed
             ELSE /\ placeStack' = [placeStack EXCEPT
                                      ![c] = [SubSeq(@, 1, d - 1) EXCEPT ![d - 1].i = @ + 1]]
                  /\ set_placed' = set_placed \cup {<<f.spend_txid, f.parent>>}
    /\ UNCHANGED <<placeGraph, placePc, placeTop, placeOut, placeStart, placeRest>>

\* set_placed.clear() after the loop over top_level
PlaceFinish(c) ==
    /\ placePc[c] = "build" /\ placeStack[c] = <<>>
    /\ placeTop[c] > Len(placeGraph.top_level)
    /\ set_placed' = {}
    /\ placePc' = [placePc EXCEPT ![c] = "done"]
    /\ UNCHANGED <<placeGraph, placeTop, placeStack, placeOut, placeStart, placeRest>>

PlaceNext ==
    \E c \in Placers :
        PlaceBegin(c) \/ PlaceTop(c) \/ PlaceInput(c) \/ PlaceReturn(c) \/ PlaceFinish(c)

\* trace calls on two RPC threads, over the same traced transactions
InitPlace ==
    /\ EmptyWallets
    /\ TraceIdle
    /\ SendIdle /\ DbIdle /\ VerifyIdle /\ FundIdle /\ RawIdle /\ ListIdle
    /\ MatchIdle /\ DebugIdle /\ ParseIdle /\ RecordIdle /\ SpendIdle
    /\ set_placed = {}
    /\ placeGraph \in PlaceGraphs
    /\ placePc = [c \in Placers |-> "idle"]
    /\ placeTop = [c \in Placers |-> 1]
    /\ placeStack = [c \in Placers |-> <<>>]
    /\ placeOut = [c \in Placers |-> <<>>]
    /\ placeStart = [c \in Placers |-> {}]

SpecPlace == InitPlace /\ [][PlaceNext]_vars

\* C24: set_placed is empty when a trace starts to build its output, and the
\* "repeat" markers of a finished trace are those of a trace that ran alone,
\* whatever other trace calls did before or do at the same time.
C24_PlacedScopedToCall ==
    \A c \in Placers :
        /\ placeStart[c] = {}
        /\ placePc[c] = "done" => placeOut[c] = PlaceTopLevel(placeGraph, 1, {}, <<>>)

\* ------------------------------------------------------------------------
\* debugwallet spend_frozen_output
\* ------------------------------------------------------------------------
spendRest == <<sendVars, dbVars, verifyVars, fundVars, rawVars, matchVars, debugVars,
               parseVars, recordVars, placeVars,
               listPc, listArgs, vecOutputs, listResult, txDepth, outAddress>>

\* variant: the loop takes the first entry, spendable or not
SpendChoice_First(values) == 1

\* the loop "Withdraw the largest spendable frozen blinded output": the first
\* entry of the sorted reply that is spendable
SpendChoice(values) ==
    Min({i \in 1..Len(values) : values[i].spendable})

\* the inputs of the transaction AddAnonInputs / AddBlindedInputs build from a
\* coin control with one selected outpoint and fAllowOtherInputs = false
SpendInputs(v) == {[hash |-> v.txid, n |-> v.n]}

\* debugwallet {spend_frozen_output: true}
SpendFrozenOutput ==
    /\ frozenPc = "idle"
    /\ \E max_spendable \in {SpendableLimit, HighValue},
          exploit_fix_2_active \in BOOLEAN,
          failure \in {"", "NewKeyFromAccount failed.", "AddInputs failed",
                       "SubmitMemoryPoolAndRelay failed"} :
         LET entries == FrozenEntries(ListWallet, max_spendable)
             yes == {e \in entries : e.spendable}
             no == entries \ yes
         IN IF walletLocked[ListWallet]
            THEN /\ spendError' = "Wallet locked"
                 /\ frozenPc' = "failed"
                 /\ UNCHANGED <<frozenArgs, frozenResult, frozenTotals, spendTxs, spentOuts>>
            ELSE
            /\ frozenArgs' = [max_frozen_output_spendable |-> max_spendable]
            /\ frozenTotals' = [num_spendable |-> Cardinality(yes),
                                total_spendable |-> SumAmounts(yes),
                                num_unspendable |-> Cardinality(no),
                                total_unspendable |-> SumAmounts(no)]
            /\ \E values \in SortedByAmount(entries) :
                 /\ frozenResult' = values
                 /\ IF ~exploit_fix_2_active
                    THEN /\ spendError' = "Exploit repair fork is not active yet."
                         /\ frozenPc' = "done"
                         /\ UNCHANGED <<spendTxs, spentOuts>>
                    ELSE IF Cardinality(yes) < 1
                    THEN /\ spendError' = "No spendable outputs."
                         /\ frozenPc' = "done"
                         /\ UNCHANGED <<spendTxs, spentOuts>>
                    ELSE IF failure # ""
                    THEN /\ spendError' = failure
                         /\ frozenPc' = "failed"
                         /\ UNCHANGED <<spendTxs, spentOuts>>
                    ELSE LET v == values[SpendChoice(values)] IN
                         /\ spendTxs' = Append(spendTxs, SpendInputs(v))
                         /\ spentOuts' = [spentOuts EXCEPT
                                             ![ListWallet] = @ \cup SpendInputs(v)]
                         /\ spendError' = ""
                         /\ frozenPc' = "done"
    /\ UNCHANGED <<mapRecords, storedTx, walletLocked, chain, traceArgs,
                   tracePhase, scanW, top_level, set_forced, walkTodo, walkCur,
                   traced_txns, warnings, traceStack, expandCount, skipCount,
                   traceLocks, spendRest>>

SpendNext == SpendFrozenOutput

\* a wallet holding transaction 1, inside the frozen height, with blinded
\* and anonymous outputs of values around the limit, spent or not, in a chain
\* view that may freeze, whitelist or blacklist them
InitSpend ==
    /\ \E types \in [OutIdx -> {"blind", "anon"}],
          values \in [OutIdx -> {LowValue, HighValue}] :
         mapRecords = [w \in Wallets |-> [t \in TxIds |->
            IF w = ListWallet /\ t = 1
            THEN [present |-> TRUE, inType |-> "plain", in_height |-> TRUE,
                  vin |-> <<>>,
                  vout |-> [n \in OutIdx |->
                     [present |-> TRUE, nType |-> types[n], owned |-> TRUE,
                      nValue |-> values[n]]]]
            ELSE NoRecord]]
    /\ \E stored \in BOOLEAN :
         storedTx = [w \in Wallets |-> [t \in TxIds |->
            IF w = ListWallet /\ t = 1 /\ stored
            THEN [present |-> TRUE, blinds |-> OutIdx] ELSE NoStoredTx]]
    /\ \E spent \in {S \in SUBSET {op \in Outpoints : op.hash = 1} : Cardinality(S) <= 1} :
         spentOuts = [w \in Wallets |-> IF w = ListWallet THEN spent ELSE {}]
    /\ walletLocked = [w \in Wallets |-> FALSE]
    /\ \E frozen \in SUBSET {1}, linked \in BOOLEAN,
          black \in {S \in SUBSET {op \in Outpoints : op.hash = 1} : Cardinality(S) <= 1},
          white \in {S \in SUBSET {op \in Outpoints : op.hash = 1} : Cardinality(S) <= 1} :
         chain = [frozen_blind |-> frozen,
                  links |-> IF linked THEN Outpoints ELSE {},
                  blacklist |-> {AnonIndex(op) : op \in black},
                  whitelist |-> {AnonIndex(op) : op \in white},
                  keys |-> [w \in Wallets |-> {}]]
    /\ traceArgs = [min_value |-> min_frozen_blinded_value,
                    max_frozen_output_spendable |-> SpendableLimit,
                    extra_txouts |-> {}]
    /\ TraceIdle
    /\ NonTraceIdle

SpecSpend == InitSpend /\ [][SpendNext]_vars

\* the entry of the sorted reply for an outpoint
EntryOf(op) ==
    CHOOSE e \in {frozenResult[i] : i \in 1..Len(frozenResult)} :
        e.txid = op.hash /\ e.n = op.n

Listed(op) == \E i \in 1..Len(frozenResult) :
                 frozenResult[i].txid = op.hash /\ frozenResult[i].n = op.n

====
